---- MODULE Spec2Model ----
(***************************************************************************)
(* A model of the multi-provider compare endpoint of ai-access:            *)
(* compareHandler (src/api/routes.js), parseCompareRequest and runCompare  *)
(* (src/lib/compare.js) and the error sanitizer getClientErrorDetails      *)
(* (src/api/index.js).                                                     *)
(*                                                                         *)
(* JavaScript strings are sequences of atoms (single characters where the  *)
(* code trims or lower-cases, longer fixed fragments elsewhere), so that   *)
(* trim, toLowerCase and template strings are computed, not assumed.       *)
(* Other JavaScript values are records tagged by their type in field t.    *)
(***************************************************************************)
EXTENDS Integers, Sequences, FiniteSets, TLC

VARIABLES
    isProduction,           \* index.js: process.env.NODE_ENV === 'production'
    pc,                     \* per handler invocation: where compareHandler is
    body,                   \* per invocation: req.body
    deps,                   \* per invocation: the deps given to runCompare
    request,                \* per invocation: parseCompareRequest's result
    timeoutMs,              \* per invocation: runCompare's timeoutMs
    imagePayload,           \* per invocation: runCompare's imagePayload
    imagePreparationError,  \* per invocation: runCompare's imagePreparationError
    imageFetch,             \* per invocation: the axios.get of the image
    network,                \* per invocation: what the remote services do
    tasks,                  \* per invocation: the provider tasks, by position
    response,               \* per invocation: what res.status().json() sent
    chat,                   \* a request to a chat or transcript route
    limiter,                \* security.js: one rate limiter and its clock
    access,                 \* security.js: a request at the access middleware
    signup                  \* signups with one invite code

vars == <<isProduction, pc, body, deps, request, timeoutMs, imagePayload,
          imagePreparationError, imageFetch, network, tasks, response, chat,
          limiter, access, signup>>

(***************************************************************************)
(* Bounds of the model.                                                    *)
(***************************************************************************)
\* Longest "providers" array of a request body.
MaxProviderTokens == 2
\* Largest number of clock milliseconds that pass beyond what the code fixes.
MaxElapsed == 1

(***************************************************************************)
(* JavaScript values.                                                      *)
(***************************************************************************)
UNDEF == [t |-> "undefined"]
NULL == [t |-> "null"]
Str(s) == [t |-> "string", v |-> s]
\* A finite number is kept in halves, so that 0.5 and 2.5 are values.
Num(h) == [t |-> "number", finite |-> TRUE, halves |-> h]
NaN == [t |-> "number", finite |-> FALSE, halves |-> 0]
Arr(s) == [t |-> "array", v |-> s]

IsString(x) == x.t = "string"

IsSpace(c) == c \in {" ", "\n", "\t"}

RECURSIVE TrimStart(_)
TrimStart(s) ==
    IF s = <<>> THEN <<>>
    ELSE IF IsSpace(Head(s)) THEN TrimStart(Tail(s)) ELSE s

RECURSIVE TrimEnd(_)
TrimEnd(s) ==
    IF s = <<>> THEN <<>>
    ELSE IF IsSpace(s[Len(s)]) THEN TrimEnd(SubSeq(s, 1, Len(s) - 1)) ELSE s

\* String.prototype.trim
Trim(s) == TrimEnd(TrimStart(s))

UpperToLower ==
    [c \in {"A", "D", "E", "G", "I", "K", "M", "N", "O", "P", "S", "T"} |->
        CASE c = "A" -> "a" [] c = "D" -> "d" [] c = "E" -> "e"
          [] c = "G" -> "g" [] c = "I" -> "i" [] c = "K" -> "k"
          [] c = "M" -> "m" [] c = "N" -> "n" [] c = "O" -> "o"
          [] c = "P" -> "p" [] c = "S" -> "s" [] c = "T" -> "t"]

\* String.prototype.toLowerCase, over the letters the inputs use; an atom
\* that is a fragment is lower-cased by LowerAtom below.
LowerAtom(c) ==
    IF c \in DOMAIN UpperToLower THEN UpperToLower[c]
    ELSE IF c = "DATA:" THEN "data:"
    ELSE IF c = ";BASE64," THEN ";base64,"
    ELSE IF c = "IMAGE/PNG" THEN "image/png"
    ELSE c

ToLowerCase(s) == [i \in 1..Len(s) |-> LowerAtom(s[i])]

\* Array.prototype.includes on a sequence
Includes(seq, x) == \E i \in 1..Len(seq) : seq[i] = x

\* String(value) for a value that is not a string
JsString(x) ==
    CASE x.t = "number" ->
            IF ~x.finite THEN <<"NaN">>
            ELSE IF x.halves % 2 = 0 THEN <<ToString(x.halves \div 2)>>
            ELSE <<ToString(x.halves \div 2), ".5">>
      [] x.t = "null" -> <<"null">>
      [] x.t = "undefined" -> <<"undefined">>
      [] x.t = "object" -> <<"[object Object]">>
      [] OTHER -> <<"?">>

(***************************************************************************)
(* src/lib/compare.js: constants and request validation.                   *)
(***************************************************************************)
OPENAI == <<"o", "p", "e", "n", "a", "i">>
DEEPSEEK == <<"d", "e", "e", "p", "s", "e", "e", "k">>
ANTHROPIC == <<"a", "n", "t", "h", "r", "o", "p", "i", "c">>

\* Mutant of SUPPORTED_PROVIDERS: the ids in alphabetical order.
SupportedProvidersSorted == <<ANTHROPIC, DEEPSEEK, OPENAI>>

SUPPORTED_PROVIDERS == <<OPENAI, DEEPSEEK, ANTHROPIC>>
Providers == {OPENAI, DEEPSEEK, ANTHROPIC}

DEFAULT_COMPARE_TIMEOUT_MS == 45000

\* Mutant of NormalizeOne: a key is pushed though normalized includes it.
NormalizeOneKeepAll(acc, provider) ==
    IF ~IsString(provider)
    THEN [acc EXCEPT !.unsupportedProviders = Append(@, JsString(provider))]
    ELSE LET key == Trim(ToLowerCase(provider.v)) IN
         IF key = <<>> THEN acc
         ELSE IF ~Includes(SUPPORTED_PROVIDERS, key)
         THEN [acc EXCEPT !.unsupportedProviders = Append(@, provider.v)]
         ELSE [acc EXCEPT !.normalized = Append(@, key)]

\* The forEach body of normalizeProvidersInput: acc is
\* [normalized, unsupportedProviders] so far.
NormalizeOne(acc, provider) ==
    IF ~IsString(provider)
    THEN [acc EXCEPT !.unsupportedProviders = Append(@, JsString(provider))]
    ELSE LET key == Trim(ToLowerCase(provider.v)) IN
         IF key = <<>> THEN acc
         ELSE IF ~Includes(SUPPORTED_PROVIDERS, key)
         THEN [acc EXCEPT !.unsupportedProviders = Append(@, provider.v)]
         ELSE IF ~Includes(acc.normalized, key)
         THEN [acc EXCEPT !.normalized = Append(@, key)]
         ELSE acc

RECURSIVE NormalizeAll(_, _)
NormalizeAll(acc, providers) ==
    IF providers = <<>> THEN acc
    ELSE NormalizeAll(NormalizeOne(acc, Head(providers)), Tail(providers))

normalizeProvidersInput(providers) ==
    IF providers = UNDEF
    THEN [providers |-> SUPPORTED_PROVIDERS, unsupportedProviders |-> <<>>]
    ELSE IF providers.t # "array"
    THEN [providers |-> NULL, unsupportedProviders |-> <<>>,
          validationError |-> <<"\"providers\" must be an array when provided.">>]
    ELSE LET acc == NormalizeAll([normalized |-> <<>>,
                                  unsupportedProviders |-> <<>>], providers.v)
         IN IF Len(acc.normalized) = 0
            THEN [providers |-> NULL,
                  unsupportedProviders |-> acc.unsupportedProviders,
                  validationError |->
                    <<"At least one supported provider is required in \"providers\".">>]
            ELSE [providers |-> acc.normalized,
                  unsupportedProviders |-> acc.unsupportedProviders]

EmptyOptions == [t |-> "object", timeoutMs |-> UNDEF,
                 overrides |-> [p \in Providers |-> UNDEF]]

\* Mutant of PromptInvalid: the prompt is not trimmed before the test.
PromptInvalidUntrimmed(prompt) == ~IsString(prompt) \/ prompt.v = <<>>

\* typeof prompt !== 'string' || !prompt.trim()
PromptInvalid(prompt) == ~IsString(prompt) \/ Trim(prompt.v) = <<>>

\* Mutant of ImageUrlInvalid: the imageUrl is not trimmed before the test.
ImageUrlInvalidUntrimmed(imageUrl) ==
    imageUrl # UNDEF /\ (~IsString(imageUrl) \/ imageUrl.v = <<>>)

\* imageUrl !== undefined && (typeof imageUrl !== 'string' || !imageUrl.trim())
ImageUrlInvalid(imageUrl) ==
    imageUrl # UNDEF /\ (~IsString(imageUrl) \/ Trim(imageUrl.v) = <<>>)

parseCompareRequest(b) ==
    IF PromptInvalid(b.prompt)
    THEN [error |-> <<"\"prompt\" is required and must be a non-empty string.">>]
    ELSE LET providerSelection == normalizeProvidersInput(b.providers) IN
         IF "validationError" \in DOMAIN providerSelection
         THEN [error |-> providerSelection.validationError,
               unsupportedProviders |-> providerSelection.unsupportedProviders]
         ELSE LET providerOptions ==
                      IF b.providerOptions.t = "object"
                      THEN b.providerOptions ELSE EmptyOptions
              IN IF ImageUrlInvalid(b.imageUrl)
                 THEN [error |->
                         <<"\"imageUrl\" must be a non-empty string when provided.">>,
                       unsupportedProviders |->
                         providerSelection.unsupportedProviders]
                 ELSE [prompt |-> Trim(b.prompt.v),
                       imageUrl |-> IF b.imageUrl # UNDEF /\ b.imageUrl.v # <<>>
                                    THEN Str(Trim(b.imageUrl.v)) ELSE UNDEF,
                       providers |-> providerSelection.providers,
                       unsupportedProviders |->
                         providerSelection.unsupportedProviders,
                       providerOptions |-> providerOptions]

Digits ==
    [c \in {"0", "1", "2", "3", "4", "5", "6", "7", "8", "9"} |->
        CASE c = "0" -> 0 [] c = "1" -> 1 [] c = "2" -> 2 [] c = "3" -> 3
          [] c = "4" -> 4 [] c = "5" -> 5 [] c = "6" -> 6 [] c = "7" -> 7
          [] c = "8" -> 8 [] c = "9" -> 9]

\* The value of a string of decimal digits
RECURSIVE DigitsValue(_)
DigitsValue(s) ==
    IF s = <<>> THEN 0
    ELSE 10 * DigitsValue(SubSeq(s, 1, Len(s) - 1)) + Digits[s[Len(s)]]

\* Number(value); of the strings, the blank ones and the strings of decimal
\* digits are numbers here, every other one is NaN.
ToNumber(x) ==
    CASE x.t = "number" -> x
      [] x.t = "undefined" -> NaN
      [] x.t = "null" -> Num(0)
      [] x.t = "string" ->
            IF Trim(x.v) = <<>> THEN Num(0)
            ELSE IF \A i \in 1..Len(Trim(x.v)) : Trim(x.v)[i] \in DOMAIN Digits
            THEN Num(2 * DigitsValue(Trim(x.v)))
            ELSE NaN
      [] OTHER -> NaN

\* Math.floor of a number kept in halves
Floor(h) == h \div 2

toIntegerOrDefault(value, fallback) ==
    LET n == ToNumber(value) IN
    IF ~n.finite \/ n.halves <= 0 THEN fallback ELSE Floor(n.halves)

(***************************************************************************)
(* src/api/index.js: the error sanitizer.  An Error is a record            *)
(* [code, message, response]; response is UNDEF or [status, data].         *)
(***************************************************************************)
productionErrorDetails ==
    <<"Upstream provider request failed. Check server logs for details.">>

\* new Error(message)
Err(message) == [code |-> "none", message |-> message, response |-> UNDEF]

\* An axios error that carries the upstream response
HttpErr(status, data) ==
    [code |-> "ERR_BAD_RESPONSE",
     message |-> <<"Request failed with status code ", ToString(status)>>,
     response |-> [status |-> status, data |-> data]]

\* error?.response?.data
ResponseData(error) ==
    IF error.response = UNDEF THEN UNDEF ELSE error.response.data

\* JavaScript truthiness
Truthy(x) ==
    CASE x.t = "undefined" -> FALSE
      [] x.t = "null" -> FALSE
      [] x.t = "string" -> x.v # <<>>
      [] x.t = "number" -> x.finite /\ x.halves # 0
      [] OTHER -> TRUE

\* typeof x === 'string' && x.trim()
NonBlankString(x) == IsString(x) /\ Trim(x.v) # <<>>

\* data?.error, data?.message, data?.error?.message of a response body
Field(x, name) ==
    IF x.t = "object" /\ name \in DOMAIN x THEN x[name] ELSE UNDEF

NoMessage == [t |-> "null"]

\* Mutant of extractUpstreamErrorMessage: the timeout message is not let
\* through.
extractUpstreamErrorMessageNoTimeout(error) ==
    LET data == ResponseData(error) IN
    IF ~Truthy(data) THEN NoMessage
    ELSE IF NonBlankString(data) THEN Str(Trim(data.v))
    ELSE IF NonBlankString(Field(data, "error"))
    THEN Str(Trim(Field(data, "error").v))
    ELSE IF NonBlankString(Field(data, "message"))
    THEN Str(Trim(Field(data, "message").v))
    ELSE IF NonBlankString(Field(Field(data, "error"), "message"))
    THEN Str(Trim(Field(Field(data, "error"), "message").v))
    ELSE NoMessage

extractUpstreamErrorMessage(error) ==
    IF error.code = "timeout" /\ error.message # <<>> THEN Str(error.message)
    ELSE LET data == ResponseData(error) IN
         IF ~Truthy(data) THEN NoMessage
         ELSE IF NonBlankString(data) THEN Str(Trim(data.v))
         ELSE IF NonBlankString(Field(data, "error"))
         THEN Str(Trim(Field(data, "error").v))
         ELSE IF NonBlankString(Field(data, "message"))
         THEN Str(Trim(Field(data, "message").v))
         ELSE IF NonBlankString(Field(Field(data, "error"), "message"))
         THEN Str(Trim(Field(Field(data, "error"), "message").v))
         ELSE NoMessage

\* JSON.stringify(value, null, 2) of a response body
RECURSIVE JsonStringify(_)
JsonStringify(x) ==
    CASE x.t = "string" -> <<"\"">> \o x.v \o <<"\"">>
      [] x.t = "object" ->
            <<"{">>
            \o (IF Field(x, "error") # UNDEF
                THEN <<"\"error\": ">> \o JsonStringify(x.error) ELSE <<>>)
            \o (IF Field(x, "message") # UNDEF
                THEN <<"\"message\": ">> \o JsonStringify(x.message) ELSE <<>>)
            \o <<"}">>
      [] x.t = "buffer" -> <<"{\"type\": \"Buffer\", \"data\": [">> \o x.v \o <<"]}">>
      [] x.t = "null" -> <<"null">>
      [] OTHER -> <<"?">>

getClientErrorDetailsIn(production, error) ==
    IF production
    THEN LET upstreamMessage == extractUpstreamErrorMessage(error) IN
         IF upstreamMessage # NoMessage THEN upstreamMessage.v
         ELSE productionErrorDetails
    ELSE IF Truthy(ResponseData(error))
    THEN JsonStringify(ResponseData(error))
    ELSE IF error.message # <<>> THEN error.message
    ELSE <<"Unknown error">>

getClientErrorDetails(error) == getClientErrorDetailsIn(isProduction, error)

(***************************************************************************)
(* src/lib/compare.js: image preparation.  An image URL is a sequence of   *)
(* fragments: "data:", a media type, ";base64,", payload fragments, or the *)
(* fragments of a remote URL.                                              *)
(***************************************************************************)
\* A fragment that holds ';' or ',': [^;,]+ cannot cross it.
HasDelimiter(a) == a \in {";base64,", ";BASE64,", ";charset=utf-8", ","}

\* The fragments whose text starts with "image/"
StartsWithImage(mediaType) ==
    mediaType # <<>> /\ mediaType[1] \in {"image/png", "image/jpeg", "image/"}

\* The index of the first fragment from index 2 on that holds a delimiter, or 0
FirstDelimiter(value) ==
    LET hits == {k \in 2..Len(value) : HasDelimiter(value[k])} IN
    IF hits = {} THEN 0 ELSE CHOOSE k \in hits : \A j \in hits : k <= j

\* value.match(/^data:([^;,]+);base64,([\s\S]+)$/i): the two groups, or none
MatchDataUrl(value) ==
    LET k == FirstDelimiter(value) IN
    IF /\ Len(value) >= 1
       /\ LowerAtom(value[1]) = "data:"
       /\ k >= 3
       /\ LowerAtom(value[k]) = ";base64,"
       /\ k < Len(value)
    THEN [matched |-> TRUE, g1 |-> SubSeq(value, 2, k - 1),
          g2 |-> SubSeq(value, k + 1, Len(value))]
    ELSE [matched |-> FALSE]

\* The result is [kind |-> "null"], [kind |-> "image", mediaType, data] or
\* [kind |-> "throw", error].
parseDataUrlImage(value) ==
    IF ~IsString(value) THEN [kind |-> "null"]
    ELSE LET match == MatchDataUrl(value.v) IN
         IF ~match.matched THEN [kind |-> "null"]
         ELSE LET mediaType == Trim(ToLowerCase(match.g1))
                  data == Trim(match.g2)
              IN IF ~StartsWithImage(mediaType)
                 THEN [kind |-> "throw", error |->
                       Err(<<"imageUrl data URL must contain an image media type.">>)]
                 ELSE IF data = <<>>
                 THEN [kind |-> "throw", error |->
                       Err(<<"imageUrl data URL is missing base64 image data.">>)]
                 ELSE [kind |-> "image", mediaType |-> mediaType, data |-> data]

\* (contentType || '').split(';')[0]
BeforeSemicolon(s) ==
    LET hits == {k \in 1..Len(s) : HasDelimiter(s[k])} IN
    IF hits = {} THEN s
    ELSE SubSeq(s, 1, (CHOOSE k \in hits : \A j \in hits : k <= j) - 1)

\* bytes.toString('base64'), fragment by fragment
Base64(bytes) == [i \in 1..Len(bytes) |-> "b64:" \o bytes[i]]

\* The part of fetchRemoteImageAsBase64 that follows the axios.get: fetched
\* is the resolved response [contentType, data].
fetchRemoteImageAsBase64Then(fetched) ==
    LET rawContentType == fetched.contentType
        mediaType == ToLowerCase(Trim(BeforeSemicolon(
                        IF Truthy(rawContentType) THEN rawContentType.v ELSE <<>>)))
    IN IF ~StartsWithImage(mediaType)
       THEN [kind |-> "throw", error |->
             Err(<<"imageUrl must point to an image resource.">>)]
       ELSE IF Len(fetched.data) = 0
       THEN [kind |-> "throw", error |-> Err(<<"imageUrl resource is empty.">>)]
       ELSE [kind |-> "image", mediaType |-> mediaType,
             data |-> Base64(fetched.data)]

\* Mutant of ImagePayloadOf: the openai form is the bare base64 text.
ImagePayloadOfBareData(image) ==
    [t |-> "object",
     openAiImageUrl |-> image.data,
     anthropicImageSource |-> [t |-> "object", type |-> "base64",
                               media_type |-> image.mediaType,
                               data |-> image.data]]

\* The object prepareImagePayloads returns for an image
ImagePayloadOf(image) ==
    [t |-> "object",
     openAiImageUrl |-> <<"data:">> \o image.mediaType \o <<";base64,">>
                        \o image.data,
     anthropicImageSource |-> [t |-> "object", type |-> "base64",
                               media_type |-> image.mediaType,
                               data |-> image.data]]

(***************************************************************************)
(* src/lib/compare.js and src/api/index.js: the provider executors.        *)
(***************************************************************************)
openAiModel == <<"gpt-4o-mini">>
deepSeekModel == <<"deepseek-chat">>
anthropicModel == <<"claude-3-5-haiku-latest">>

ModelOf(provider) ==
    CASE provider = OPENAI -> openAiModel
      [] provider = DEEPSEEK -> deepSeekModel
      [] provider = ANTHROPIC -> anthropicModel

\* texts.join('\n')
RECURSIVE Join(_)
Join(texts) ==
    IF texts = <<>> THEN <<>>
    ELSE IF Len(texts) = 1 THEN texts[1]
    ELSE texts[1] \o <<"\n">> \o Join(Tail(texts))

\* The elements of x when it is an array, none otherwise
Elements(x) == IF x.t = "array" THEN x.v ELSE <<>>

\* The content arrays of all output items, concatenated in order
RECURSIVE FlattenContent(_)
FlattenContent(items) ==
    IF items = <<>> THEN <<>>
    ELSE Elements(Field(Head(items), "content")) \o FlattenContent(Tail(items))

\* index.js extractResponsesText(responseData).text
extractResponsesText(responseData) ==
    LET parts == FlattenContent(Elements(Field(responseData, "output")))
        Keep(part) ==
            /\ Truthy(Field(part, "text"))
            /\ \/ Field(part, "type") = Str(<<"output_text">>)
               \/ Field(part, "type") = Str(<<"text">>)
               \/ ~Truthy(Field(part, "type"))
        kept == SelectSeq(parts, Keep)
    IN Join([i \in 1..Len(kept) |-> kept[i].text.v])

extractDeepSeekText(responseData) ==
    LET choices == Elements(Field(responseData, "choices"))
        contents == [i \in 1..Len(choices) |->
                        Field(Field(choices[i], "message"), "content")]
        Keep(part) == IsString(part) /\ Len(part.v) > 0
        kept == SelectSeq(contents, Keep)
    IN Trim(Join([i \in 1..Len(kept) |-> kept[i].v]))

extractAnthropicText(responseData) ==
    LET blocks == Elements(Field(responseData, "content"))
        Keep(block) == /\ Field(block, "type") = Str(<<"text">>)
                       /\ IsString(Field(block, "text"))
        kept == SelectSeq(blocks, Keep)
    IN Trim(Join([i \in 1..Len(kept) |-> kept[i].text.v]))

\* The options runProviderTask hands to an executor:
\* {...(providerOptions[provider] || {}), ...(imagePayload ? {imagePayload} : {})}
ExecutorOptions(providerOptions, provider, payload) ==
    LET override == providerOptions.overrides[provider] IN
    [imagePayload |-> IF Truthy(payload) THEN payload
                      ELSE Field(override, "imagePayload"),
     maxTokens |-> Field(override, "maxTokens"),
     maxOutputTokens |-> Field(override, "maxOutputTokens")]

\* What an executor hands to its transport: the messages and the token limit.
ExecutorRequest(provider, prompt, options) ==
    CASE provider = OPENAI ->
            [messages |->
                IF Truthy(options.imagePayload)
                THEN <<[role |-> "user", content |-> Arr(<<
                        [type |-> "input_text", text |-> Str(prompt)],
                        [type |-> "input_image",
                         image_url |->
                            Field(options.imagePayload, "openAiImageUrl")]>>)]>>
                ELSE <<[role |-> "user", content |-> Str(prompt)]>>,
             maxTokens |-> toIntegerOrDefault(options.maxOutputTokens, 1024)]
      [] provider = DEEPSEEK ->
            [messages |-> <<[role |-> "user", content |-> Str(prompt)]>>,
             maxTokens |-> toIntegerOrDefault(options.maxTokens, 1024)]
      [] provider = ANTHROPIC ->
            [messages |->
                IF Truthy(options.imagePayload)
                THEN <<[role |-> "user", content |-> Arr(<<
                        [type |-> "text", text |-> Str(prompt)],
                        [type |-> "image",
                         source |->
                            Field(options.imagePayload,
                                  "anthropicImageSource")]>>)]>>
                ELSE <<[role |-> "user", content |-> Str(prompt)]>>,
             maxTokens |-> toIntegerOrDefault(options.maxTokens, 1024)]

\* What an executor returns once its transport has resolved with responseData
ExecutorPayload(provider, responseData) ==
    [model |-> ModelOf(provider),
     text |-> CASE provider = OPENAI -> extractResponsesText(responseData)
                [] provider = DEEPSEEK -> extractDeepSeekText(responseData)
                [] provider = ANTHROPIC -> extractAnthropicText(responseData)]

(***************************************************************************)
(* src/lib/compare.js: the provider tasks.  A task is the promise that     *)
(* runCompare's map makes for one position of request.providers, with the  *)
(* position of its code (state), what it resolved with (result), and what  *)
(* it did on the way: executor and transport invocations, the request      *)
(* sent, the timer of withTimeout and the transport call.                  *)
(***************************************************************************)
PendingTask(provider) ==
    [provider |-> provider, state |-> "PENDING", result |-> NULL,
     execCalls |-> 0, transportCalls |-> 0, sent |-> NULL,
     timer |-> "unset", call |-> "none"]

NoDispatchStates == {"DISABLED", "UNSUPPORTED_CAPABILITY", "IMAGE_BLOCKED"}
AfterDispatchStates == {"SUCCESS", "TIMEOUT", "UPSTREAM_ERROR"}
TerminalStates == NoDispatchStates \cup AfterDispatchStates

ErrorResult(provider, latencyMs, error) ==
    [provider |-> provider, status |-> "error", latencyMs |-> latencyMs,
     error |-> error]

\* Mutant of runProviderTaskStart: the credential gate is missing.
runProviderTaskStartNoCredentialGate(task, req, imageRequested, payload, availability) ==
    IF task.provider = DEEPSEEK /\ imageRequested
    THEN [task EXCEPT !.state = "UNSUPPORTED_CAPABILITY",
                      !.result = ErrorResult(task.provider, 0,
    <<"Image input is not supported for the configured DeepSeek text model.">>)]
    ELSE [task EXCEPT !.state = "DISPATCHED",
                      !.execCalls = @ + 1,
                      !.transportCalls = @ + 1,
                      !.sent = ExecutorRequest(task.provider, req.prompt,
                                  ExecutorOptions(req.providerOptions,
                                                  task.provider, payload)),
                      !.timer = "armed",
                      !.call = "inflight"]

\* Mutant of runProviderTaskStart: the capability gate is missing.
runProviderTaskStartNoCapabilityGate(task, req, imageRequested, payload, availability) ==
    IF ~availability[task.provider]
    THEN [task EXCEPT !.state = "DISABLED",
                      !.result = ErrorResult(task.provider, 0,
                          task.provider \o <<" API key is not configured">>)]
    ELSE [task EXCEPT !.state = "DISPATCHED",
                      !.execCalls = @ + 1,
                      !.transportCalls = @ + 1,
                      !.sent = ExecutorRequest(task.provider, req.prompt,
                                  ExecutorOptions(req.providerOptions,
                                                  task.provider, payload)),
                      !.timer = "armed",
                      !.call = "inflight"]

\* Mutant of runProviderTaskStart: the credential gate asks for the key of
\* every provider instead of the task's own.
runProviderTaskStartAllSelectedKeys(task, req, imageRequested, payload, availability) ==
    IF \E i \in 1..Len(req.providers) : ~availability[req.providers[i]]
    THEN [task EXCEPT !.state = "DISABLED",
                      !.result = ErrorResult(task.provider, 0,
                          task.provider \o <<" API key is not configured">>)]
    ELSE IF task.provider = DEEPSEEK /\ imageRequested
    THEN [task EXCEPT !.state = "UNSUPPORTED_CAPABILITY",
                      !.result = ErrorResult(task.provider, 0,
    <<"Image input is not supported for the configured DeepSeek text model.">>)]
    ELSE [task EXCEPT !.state = "DISPATCHED",
                      !.execCalls = @ + 1,
                      !.transportCalls = @ + 1,
                      !.sent = ExecutorRequest(task.provider, req.prompt,
                                  ExecutorOptions(req.providerOptions,
                                                  task.provider, payload)),
                      !.timer = "armed",
                      !.call = "inflight"]

\* runProviderTask up to its first await: the two gates, then the executor
\* is invoked (which calls its transport) and withTimeout arms the timer.
runProviderTaskStart(task, req, imageRequested, payload, availability) ==
    IF ~availability[task.provider]
    THEN [task EXCEPT !.state = "DISABLED",
                      !.result = ErrorResult(task.provider, 0,
                          task.provider \o <<" API key is not configured">>)]
    ELSE IF task.provider = DEEPSEEK /\ imageRequested
    THEN [task EXCEPT !.state = "UNSUPPORTED_CAPABILITY",
                      !.result = ErrorResult(task.provider, 0,
    <<"Image input is not supported for the configured DeepSeek text model.">>)]
    ELSE [task EXCEPT !.state = "DISPATCHED",
                      !.execCalls = @ + 1,
                      !.transportCalls = @ + 1,
                      !.sent = ExecutorRequest(task.provider, req.prompt,
                                  ExecutorOptions(req.providerOptions,
                                                  task.provider, payload)),
                      !.timer = "armed",
                      !.call = "inflight"]

\* Mutant of MapProviderTask: a failed image preparation fails every task.
MapProviderTaskBlockAll(task, req, prepError, payload, availability) ==
    IF prepError # NULL
    THEN [task EXCEPT !.state = "IMAGE_BLOCKED",
                      !.result = ErrorResult(task.provider, 0,
                                             getClientErrorDetails(prepError))]
    ELSE runProviderTaskStart(task, req, Truthy(req.imageUrl), payload,
                              availability)

\* The callback of request.providers.map in runCompare
\* Mutant of MapProviderTask: imagePreparationError is a variable of the
\* module, which the requests share, in place of a local of runCompare.
MapProviderTaskSharedError(task, req, prepError, payload, availability) ==
    LET failed == {q \in DOMAIN imagePreparationError :
                      imagePreparationError[q] # NULL}
        shared == IF prepError # NULL \/ failed = {} THEN prepError
                  ELSE imagePreparationError[CHOOSE q \in failed : TRUE]
    IN IF shared # NULL /\ task.provider \in {OPENAI, ANTHROPIC}
       THEN [task EXCEPT !.state = "IMAGE_BLOCKED",
                         !.result = ErrorResult(task.provider, 0,
                                                getClientErrorDetails(shared))]
       ELSE runProviderTaskStart(task, req, Truthy(req.imageUrl), payload,
                                 availability)

MapProviderTask(task, req, prepError, payload, availability) ==
    IF prepError # NULL /\ task.provider \in {OPENAI, ANTHROPIC}
    THEN [task EXCEPT !.state = "IMAGE_BLOCKED",
                      !.result = ErrorResult(task.provider, 0,
                                             getClientErrorDetails(prepError))]
    ELSE runProviderTaskStart(task, req, Truthy(req.imageUrl), payload,
                              availability)

\* The error withTimeout's timer rejects with
TimeoutError(provider, ms) ==
    [code |-> "timeout",
     message |-> provider \o <<" request timed out after ", ToString(ms), "ms">>,
     response |-> UNDEF]

\* runProviderTask after the await: the try block's return
runProviderTaskReturn(task, payload, latencyMs) ==
    [task EXCEPT !.state = "SUCCESS",
                 !.result = [provider |-> task.provider, status |-> "success",
                             latencyMs |-> latencyMs, model |-> payload.model,
                             text |-> payload.text]]

\* Mutant of runProviderTaskCatch: the catch block throws the error on.
runProviderTaskCatchRethrow(task, error, latencyMs) ==
    [task EXCEPT !.state = "REJECTED"]

\* Mutant of runProviderTaskCatch: a failed attempt is made once more.
runProviderTaskCatchRetry(task, error, latencyMs) ==
    IF task.execCalls < 2
    THEN [task EXCEPT !.state = "DISPATCHED",
                      !.execCalls = @ + 1,
                      !.transportCalls = @ + 1]
    ELSE [task EXCEPT !.state = IF error.code = "timeout" THEN "TIMEOUT"
                                ELSE "UPSTREAM_ERROR",
                      !.result = ErrorResult(task.provider, latencyMs,
                                             getClientErrorDetails(error))]

\* Mutant of runProviderTaskCatch: the error text carries the latency.
runProviderTaskCatchWithLatency(task, error, latencyMs) ==
    [task EXCEPT !.state = IF error.code = "timeout" THEN "TIMEOUT"
                           ELSE "UPSTREAM_ERROR",
                 !.result = ErrorResult(task.provider, latencyMs,
                                getClientErrorDetails(error)
                                \o <<" after ", ToString(latencyMs), "ms">>)]

\* runProviderTask after the await: the catch block
runProviderTaskCatch(task, error, latencyMs) ==
    [task EXCEPT !.state = IF error.code = "timeout" THEN "TIMEOUT"
                           ELSE "UPSTREAM_ERROR",
                 !.result = ErrorResult(task.provider, latencyMs,
                                        getClientErrorDetails(error))]

\* Mutant of WhenCallResolves: a call that resolves after the timer has
\* fired still writes its result.
WhenCallResolvesLate(task, responseData, latencyMs) ==
    [runProviderTaskReturn(task,
         ExecutorPayload(task.provider, responseData), latencyMs)
     EXCEPT !.call = "settled", !.timer = "cleared"]

\* withTimeout, the transport call resolving: Promise.race takes the first
\* settlement and finally clears the timer; a later one changes nothing.
WhenCallResolves(task, responseData, latencyMs) ==
    IF task.state = "DISPATCHED"
    THEN [runProviderTaskReturn(task,
              ExecutorPayload(task.provider, responseData), latencyMs)
          EXCEPT !.call = "settled", !.timer = "cleared"]
    ELSE [task EXCEPT !.call = "settled"]

\* Mutant of WhenCallRejects: a call that rejects after the timer has fired
\* still writes its error.
WhenCallRejectsLate(task, error, latencyMs) ==
    [runProviderTaskCatch(task, error, latencyMs)
     EXCEPT !.call = "settled", !.timer = "cleared"]

\* withTimeout, the transport call rejecting
WhenCallRejects(task, error, latencyMs) ==
    IF task.state = "DISPATCHED"
    THEN [runProviderTaskCatch(task, error, latencyMs)
          EXCEPT !.call = "settled", !.timer = "cleared"]
    ELSE [task EXCEPT !.call = "settled"]

\* Mutant of WhenTimerFires: the timer does not reject the race.
WhenTimerFiresUnheard(task, ms, latencyMs) == task

\* withTimeout, the timer firing after ms
WhenTimerFires(task, ms, latencyMs) ==
    [runProviderTaskCatch(task, TimeoutError(task.provider, ms), latencyMs)
     EXCEPT !.timer = "fired"]

\* Mutant of CollectResults: the successes first, then the failures.
CollectResultsSuccessFirst(ts) ==
    LET results == [i \in 1..Len(ts) |-> ts[i].result]
        IsSuccess(x) == x.status = "success"
        IsFailure(x) == x.status # "success"
    IN SelectSeq(results, IsSuccess) \o SelectSeq(results, IsFailure)

\* Mutant of AllSettled: Promise.race in place of Promise.all.
AllSettledRace(ts) ==
    \E i \in 1..Len(ts) : ts[i].state \in TerminalStates \cup {"REJECTED"}

\* Promise.all(tasks) settles: one task has rejected, or all have resolved.
AllSettled(ts) ==
    \/ \E i \in 1..Len(ts) : ts[i].state = "REJECTED"
    \/ \A i \in 1..Len(ts) : ts[i].state \in TerminalStates

\* const results = await Promise.all(tasks)
CollectResults(ts) == [i \in 1..Len(ts) |-> ts[i].result]

\* What runCompare returns
CompareResponse(req, ms, results) ==
    [request |-> [prompt |-> req.prompt, imageUrl |-> req.imageUrl,
                  providers |-> req.providers, timeoutMs |-> ms,
                  unsupportedProviders |-> req.unsupportedProviders],
     results |-> results]

\* Mutant of AfterPrepareImagePayloads: runCompare does not await the
\* preparation.
AfterPrepareImagePayloadsNotAwaited(parsed) == "dispatch"

\* Where runCompare is after calling prepareImagePayloads: suspended at the
\* await of the axios.get when the image has to be fetched, else at the map.
AfterPrepareImagePayloads(parsed) ==
    IF parsed.kind = "null" THEN "prepare" ELSE "dispatch"

\* Mutant of needsPreparedImage: the selected providers are not looked at.
needsPreparedImageAnyProvider(req) ==
    /\ IsString(req.imageUrl)
    /\ req.imageUrl.v # <<>>

\* request.imageUrl is a non-empty string and an image-capable provider is
\* selected
needsPreparedImage(req) ==
    /\ IsString(req.imageUrl)
    /\ req.imageUrl.v # <<>>
    /\ \E i \in 1..Len(req.providers) : req.providers[i] \in {OPENAI, ANTHROPIC}

(***************************************************************************)
(* The inputs: request bodies, the deployment, and what the network does.  *)
(***************************************************************************)
RunIds == {"A", "B"}

SeqsUpTo(S, n) == UNION {[1..k -> S] : k \in 0..n}

Prompts == {Str(<<" ">>), Str(<<" ", "h", "i", "\n">>)}

ProviderTokens == {Str(OPENAI), Str(DEEPSEEK), Str(ANTHROPIC),
                   Str(<<"G", "e", "m">>)}

\* Arrays of different tokens, in every order
ProviderInputs ==
    {UNDEF, Str(OPENAI)}
    \cup {Arr(s) : s \in {q \in SeqsUpTo(ProviderTokens, MaxProviderTokens) :
                             \A i, j \in 1..Len(q) : q[i] = q[j] => i = j}}

DataUrlPng == <<"data:", "image/png", ";base64,", "AAAA">>
DataUrlText == <<"data:", "text/plain", ";base64,", "AAAA">>
\* Inline images the expression of parseDataUrlImage does not match: no
\* payload after the comma, and a parameter between type and ";base64,"
DataUrlEmpty == <<"data:", "image/png", ";base64,">>
DataUrlCharset == <<"data:", "image/png", ";charset=utf-8", ";base64,", "AAAA">>
RemoteUrl == <<"https://example.com/cat.png">>

ImageUrls == {UNDEF, Str(<<" ">>), Str(DataUrlPng), Str(DataUrlText),
              Str(DataUrlEmpty), Str(DataUrlCharset), Str(RemoteUrl)}

OptionInputs ==
    {UNDEF,
     [t |-> "object", timeoutMs |-> Num(3000),
      overrides |-> [p \in Providers |-> UNDEF]]}

Bodies == [prompt : Prompts, providers : ProviderInputs,
           providerOptions : OptionInputs, imageUrl : ImageUrls]

Availabilities == [Providers -> BOOLEAN]

\* What axios.get of the image resolves with
FetchResponses ==
    {[contentType |-> Str(<<"IMAGE/PNG", ";charset=utf-8">>),
      data |-> <<"PNGBYTES">>],
     [contentType |-> Str(<<"text/html">>), data |-> <<"<html>">>],
     [contentType |-> Str(<<"image/png">>), data |-> <<>>]}

\* What axios.get of the image rejects with
FetchErrors ==
    {[code |-> "ECONNABORTED", message |-> <<"timeout of 20000ms exceeded">>,
      response |-> UNDEF],
     HttpErr(404, [t |-> "buffer", v |-> <<"78">>])}

TextPart(type, text) == [t |-> "object", type |-> Str(<<type>>), text |-> Str(text)]

\* The text-bearing segments of a provider's answer, in order
OkSegments == << <<" ", "O">>, <<"k", "\n">> >>

\* What a provider transport resolves with (response.data, or the message
\* object of the Anthropic client)
OkResponses(provider) ==
    CASE provider = OPENAI ->
            {[t |-> "object", output |-> Arr(<<
                [t |-> "object", content |-> Arr(<<
                    TextPart("output_text", OkSegments[1]),
                    TextPart("refusal", <<"N", "o">>)>>)],
                [t |-> "object", content |-> Arr(<<
                    TextPart("output_text", OkSegments[2])>>)]>>)]}
      [] provider = DEEPSEEK ->
            {[t |-> "object", choices |-> Arr(<<
                [t |-> "object", message |->
                    [t |-> "object", content |-> Str(OkSegments[1])]],
                [t |-> "object", message |->
                    [t |-> "object", content |-> Str(OkSegments[2])]]>>)]}
      [] provider = ANTHROPIC ->
            {[t |-> "object", content |-> Arr(<<
                TextPart("text", OkSegments[1]),
                TextPart("tool_use", <<"N", "o">>),
                TextPart("text", OkSegments[2])>>)]}

\* What a provider transport rejects with
QuotaError ==
    HttpErr(429, [t |-> "object",
                  error |-> [t |-> "object",
                             message |-> Str(<<"quota exceeded">>)]])

\* A connection that broke before any response
ConnectionReset ==
    [code |-> "ECONNRESET", message |-> <<"socket hang up">>,
     response |-> UNDEF]

TransportErrors == {QuotaError}

\* The errors a provider call can reject with, with and without a response
UpstreamErrors == TransportErrors \cup {ConnectionReset}

\* What a remote service does when called: anything, or one fixed behaviour.
\* A provider that "succeeds" or "fails" does so within the timeout; one
\* that "never responds" leaves the call to the timer.
AnyNetwork ==
    [transport |-> [p \in Providers |-> "any"], image |-> [kind |-> "any"]]

ImageBehaviours ==
    {[kind |-> "resolves", with |-> fetched] : fetched \in FetchResponses}
    \cup {[kind |-> "rejects", with |-> error] : error \in FetchErrors}

TransportBehaviours == {"succeeds", "fails", "never responds"}

\* What a transport of the given behaviour rejects with: one that "fails"
\* answers 429.
RejectionsOf(behaviour) ==
    CASE behaviour = "any" -> TransportErrors
      [] behaviour = "fails" -> {QuotaError}
      [] OTHER -> {}

IdleBody == [prompt |-> UNDEF, providers |-> UNDEF, providerOptions |-> UNDEF,
             imageUrl |-> UNDEF]

\* Nothing prepared, nothing fetched: prepareCalls counts the invocations
\* of prepareImagePayloads, calls those of axios.get.
NoFetch == [state |-> "none", calls |-> 0, prepareCalls |-> 0]

(***************************************************************************)
(* The state after the handlers are registered: run A has received a       *)
(* request, run B has none.                                                *)
(***************************************************************************)
\* No request to a chat or transcript route
\* No limiter, no request at the access middleware, no signup
IdleSecurity == [pc |-> "idle"]

IdleChat ==
    [pc |-> "idle", route |-> [kind |-> "none", provider |-> OPENAI],
     apiKey |-> FALSE, body |-> [modelMessages |-> UNDEF, videoID |-> UNDEF],
     db |-> [kind |-> "none"], upstream |-> [kind |-> "none"],
     nextCalls |-> 0, handlerCalls |-> 0, lookups |-> 0,
     transportCalls |-> 0, sends |-> 0, response |-> NULL]

InitRun ==
    /\ chat = IdleChat
    /\ limiter = IdleSecurity
    /\ access = IdleSecurity
    /\ signup = IdleSecurity
    /\ request = [r \in RunIds |-> NULL]
    /\ timeoutMs = [r \in RunIds |-> 0]
    /\ imagePayload = [r \in RunIds |-> NULL]
    /\ imagePreparationError = [r \in RunIds |-> NULL]
    /\ imageFetch = [r \in RunIds |-> NoFetch]
    /\ tasks = [r \in RunIds |-> <<>>]
    /\ response = [r \in RunIds |-> NULL]

Init ==
    /\ isProduction \in BOOLEAN
    /\ pc = [r \in RunIds |-> IF r = "A" THEN "received" ELSE "idle"]
    /\ \E b \in Bodies :
          body = [r \in RunIds |-> IF r = "A" THEN b ELSE IdleBody]
    /\ \E availability \in Availabilities :
          deps = [r \in RunIds |->
                    [providerAvailability |->
                        IF r = "A" THEN availability
                        ELSE [p \in Providers |-> FALSE]]]
    /\ network = [r \in RunIds |-> AnyNetwork]
    /\ InitRun

(***************************************************************************)
(* src/api/routes.js compareHandler, up to the call of runCompare.         *)
(***************************************************************************)
CompareHandler(r) ==
    /\ pc[r] = "received"
    /\ LET parsedRequest == parseCompareRequest(body[r]) IN
       IF "error" \in DOMAIN parsedRequest
       THEN /\ response' = [response EXCEPT ![r] =
                 [status |-> 400,
                  body |-> [error |-> parsedRequest.error,
                            unsupportedProviders |->
                              IF "unsupportedProviders" \in DOMAIN parsedRequest
                              THEN parsedRequest.unsupportedProviders
                              ELSE <<>>]]]
            /\ pc' = [pc EXCEPT ![r] = "done"]
            /\ UNCHANGED request
       ELSE /\ request' = [request EXCEPT ![r] = parsedRequest]
            /\ pc' = [pc EXCEPT ![r] = "runCompare"]
            /\ UNCHANGED response
    /\ UNCHANGED <<chat, limiter, access, signup,
                   isProduction, network, body, deps, timeoutMs, imagePayload,
                   imagePreparationError, imageFetch, tasks>>

(***************************************************************************)
(* runCompare up to its first await: the timeout, and image preparation    *)
(* when needed (prepareImagePayloads up to the axios.get).                 *)
(***************************************************************************)
RunCompareStart(r) ==
    /\ pc[r] = "runCompare"
    /\ timeoutMs' = [timeoutMs EXCEPT ![r] =
          toIntegerOrDefault(request[r].providerOptions.timeoutMs,
                             DEFAULT_COMPARE_TIMEOUT_MS)]
    /\ tasks' = [tasks EXCEPT ![r] =
          [i \in 1..Len(request[r].providers) |->
              PendingTask(request[r].providers[i])]]
    /\ IF needsPreparedImage(request[r])
       THEN LET parsed == parseDataUrlImage(request[r].imageUrl) IN
            CASE parsed.kind = "image" ->
                    /\ imagePayload' = [imagePayload EXCEPT ![r] =
                                            ImagePayloadOf(parsed)]
                    /\ imageFetch' = [imageFetch EXCEPT
                                          ![r].prepareCalls = @ + 1]
                    /\ pc' = [pc EXCEPT ![r] =
                                 AfterPrepareImagePayloads(parsed)]
                    /\ UNCHANGED imagePreparationError
              [] parsed.kind = "throw" ->
                    /\ imagePreparationError' =
                          [imagePreparationError EXCEPT ![r] = parsed.error]
                    /\ imageFetch' = [imageFetch EXCEPT
                                          ![r].prepareCalls = @ + 1]
                    /\ pc' = [pc EXCEPT ![r] =
                                 AfterPrepareImagePayloads(parsed)]
                    /\ UNCHANGED imagePayload
              [] parsed.kind = "null" ->
                    /\ imageFetch' = [imageFetch EXCEPT ![r] =
                          [state |-> "inflight", calls |-> @.calls + 1,
                           prepareCalls |-> @.prepareCalls + 1]]
                    /\ pc' = [pc EXCEPT ![r] =
                                 AfterPrepareImagePayloads(parsed)]
                    /\ UNCHANGED <<imagePayload, imagePreparationError>>
       ELSE /\ pc' = [pc EXCEPT ![r] = "dispatch"]
            /\ UNCHANGED <<imagePayload, imagePreparationError, imageFetch>>
    /\ UNCHANGED <<chat, limiter, access, signup,
                   isProduction, network, body, deps, request, response>>

\* The axios.get of fetchRemoteImageAsBase64 resolves.
ImageFetchResolves(r) ==
    /\ pc[r] = "prepare"
    /\ imageFetch[r].state = "inflight"
    /\ \E fetched \in FetchResponses :
          /\ network[r].image \in
                {[kind |-> "any"], [kind |-> "resolves", with |-> fetched]}
          /\ LET image == fetchRemoteImageAsBase64Then(fetched) IN
             IF image.kind = "image"
             THEN /\ imagePayload' = [imagePayload EXCEPT ![r] =
                                          ImagePayloadOf(image)]
                  /\ UNCHANGED imagePreparationError
             ELSE /\ imagePreparationError' =
                        [imagePreparationError EXCEPT ![r] = image.error]
                  /\ UNCHANGED imagePayload
    /\ imageFetch' = [imageFetch EXCEPT ![r].state = "settled"]
    /\ pc' = [pc EXCEPT ![r] = "dispatch"]
    /\ UNCHANGED <<chat, limiter, access, signup,
                   isProduction, network, body, deps, request, timeoutMs, tasks,
                   response>>

\* The axios.get of fetchRemoteImageAsBase64 rejects.
ImageFetchRejects(r) ==
    /\ pc[r] = "prepare"
    /\ imageFetch[r].state = "inflight"
    /\ \E error \in FetchErrors :
          /\ network[r].image \in
                {[kind |-> "any"], [kind |-> "rejects", with |-> error]}
          /\ imagePreparationError' =
                [imagePreparationError EXCEPT ![r] = error]
    /\ imageFetch' = [imageFetch EXCEPT ![r].state = "settled"]
    /\ pc' = [pc EXCEPT ![r] = "dispatch"]
    /\ UNCHANGED <<chat, limiter, access, signup,
                   isProduction, network, body, deps, request, timeoutMs,
                   imagePayload,
                   tasks, response>>

\* request.providers.map(...): every task runs to its first await.
DispatchTasks(r) ==
    /\ pc[r] = "dispatch"
    /\ tasks' = [tasks EXCEPT ![r] =
          [i \in 1..Len(@) |->
              MapProviderTask(@[i], request[r], imagePreparationError[r],
                              imagePayload[r],
                              deps[r].providerAvailability)]]
    /\ pc' = [pc EXCEPT ![r] = "awaitAll"]
    /\ UNCHANGED <<chat, limiter, access, signup,
                   isProduction, network, body, deps, request, timeoutMs,
                   imagePayload,
                   imagePreparationError, imageFetch, response>>

\* Clock milliseconds between a task's start and the settlement of its call
CallLatencies(ms) == {n \in 0..MaxElapsed : n <= ms}

\* A provider transport resolves.
TransportResolves(r, i) ==
    /\ pc[r] \in {"awaitAll", "done"}
    /\ tasks[r][i].call = "inflight"
    /\ network[r].transport[tasks[r][i].provider] \in {"any", "succeeds"}
    /\ \E responseData \in OkResponses(tasks[r][i].provider),
          latencyMs \in CallLatencies(timeoutMs[r]) :
          tasks' = [tasks EXCEPT ![r][i] =
                        WhenCallResolves(@, responseData, latencyMs)]
    /\ UNCHANGED <<chat, limiter, access, signup,
                   isProduction, network, pc, body, deps, request, timeoutMs,
                   imagePayload, imagePreparationError, imageFetch, response>>

\* A provider transport rejects.
TransportRejects(r, i) ==
    /\ pc[r] \in {"awaitAll", "done"}
    /\ tasks[r][i].call = "inflight"
    /\ network[r].transport[tasks[r][i].provider] \in {"any", "fails"}
    /\ \E error \in RejectionsOf(network[r].transport[tasks[r][i].provider]),
          latencyMs \in CallLatencies(timeoutMs[r]) :
          tasks' = [tasks EXCEPT ![r][i] =
                        WhenCallRejects(@, error, latencyMs)]
    /\ UNCHANGED <<chat, limiter, access, signup,
                   isProduction, network, pc, body, deps, request, timeoutMs,
                   imagePayload, imagePreparationError, imageFetch, response>>

\* The timer of withTimeout fires: the call has not settled within timeoutMs.
TimerFires(r, i) ==
    /\ pc[r] = "awaitAll"
    /\ tasks[r][i].state = "DISPATCHED"
    /\ tasks[r][i].timer = "armed"
    /\ network[r].transport[tasks[r][i].provider] \in
          {"any", "never responds"}
    /\ \E extra \in 0..MaxElapsed :
          tasks' = [tasks EXCEPT ![r][i] =
                        WhenTimerFires(@, timeoutMs[r], timeoutMs[r] + extra)]
    /\ UNCHANGED <<chat, limiter, access, signup,
                   isProduction, network, pc, body, deps, request, timeoutMs,
                   imagePayload, imagePreparationError, imageFetch, response>>

\* Promise.all(tasks) settles: runCompare returns and compareHandler sends
\* res.json(compareResponse); were a task rejected, runCompare would reject
\* and the handler would send nothing.
Respond(r) ==
    /\ pc[r] = "awaitAll"
    /\ AllSettled(tasks[r])
    /\ IF \E i \in 1..Len(tasks[r]) : tasks[r][i].state = "REJECTED"
       THEN /\ pc' = [pc EXCEPT ![r] = "rejected"]
            /\ UNCHANGED response
       ELSE /\ pc' = [pc EXCEPT ![r] = "done"]
            /\ response' = [response EXCEPT ![r] =
                  [status |-> 200,
                   body |-> CompareResponse(request[r], timeoutMs[r],
                                            CollectResults(tasks[r]))]]
    /\ UNCHANGED <<chat, limiter, access, signup,
                   isProduction, network, body, deps, request, timeoutMs,
                   imagePayload,
                   imagePreparationError, imageFetch, tasks>>

CompareHandlerStep == \E r \in RunIds : CompareHandler(r)
RunCompareStartStep == \E r \in RunIds : RunCompareStart(r)
ImageFetchResolvesStep == \E r \in RunIds : ImageFetchResolves(r)
ImageFetchRejectsStep == \E r \in RunIds : ImageFetchRejects(r)
DispatchTasksStep == \E r \in RunIds : DispatchTasks(r)
TransportResolvesStep ==
    \E r \in RunIds : \E i \in 1..Len(tasks[r]) : TransportResolves(r, i)
TransportRejectsStep ==
    \E r \in RunIds : \E i \in 1..Len(tasks[r]) : TransportRejects(r, i)
TimerFiresStep ==
    \E r \in RunIds : \E i \in 1..Len(tasks[r]) : TimerFires(r, i)
RespondStep == \E r \in RunIds : Respond(r)

Next ==
    \/ CompareHandlerStep
    \/ RunCompareStartStep
    \/ ImageFetchResolvesStep
    \/ ImageFetchRejectsStep
    \/ DispatchTasksStep
    \/ TransportResolvesStep
    \/ TransportRejectsStep
    \/ TimerFiresStep
    \/ RespondStep

Spec == Init /\ [][Next]_vars

\* The requests under which the eventual response is checked
LiveBodies ==
    {b \in Bodies :
        /\ b.prompt = Str(<<" ", "h", "i", "\n">>)
        /\ b.providers \in {UNDEF, Arr(<<Str(DEEPSEEK), Str(OPENAI)>>)}
        /\ b.providerOptions = UNDEF
        /\ b.imageUrl \in {UNDEF, Str(RemoteUrl)}}

\* The event loop runs every callback that is ready, and every timer that
\* is armed fires: a step that stays possible is taken.
InitLive == Init /\ body["A"] \in LiveBodies

LiveSpec == InitLive /\ [][Next]_vars /\ WF_vars(Next)

\* What the runtime itself brings about: the callbacks of the handler, the
\* timers of withTimeout, and the image fetch, which axios bounds by
\* IMAGE_FETCH_TIMEOUT_MS.  The provider transports are not among them.
RuntimeStep ==
    \/ CompareHandlerStep
    \/ RunCompareStartStep
    \/ ImageFetchResolvesStep
    \/ ImageFetchRejectsStep
    \/ DispatchTasksStep
    \/ TimerFiresStep
    \/ RespondStep

\* Fairness of the runtime only: a provider transport may never complete.
TimerFairSpec == InitLive /\ [][Next]_vars /\ WF_vars(RuntimeStep)

(***************************************************************************)
(* Two invocations with the same request body, for which the credential    *)
(* and the transport of at most one selected provider differ, and every    *)
(* other remote service does the same in both.                             *)
(***************************************************************************)
PairBodies ==
    {b \in Bodies :
        /\ b.prompt = Str(<<" ", "h", "i", "\n">>)
        /\ b.providers \in {Arr(<<Str(OPENAI), Str(DEEPSEEK)>>),
                            Arr(<<Str(DEEPSEEK), Str(ANTHROPIC)>>),
                            Arr(<<Str(ANTHROPIC), Str(OPENAI)>>)}
        /\ b.providerOptions = UNDEF
        /\ b.imageUrl \in {UNDEF, Str(DataUrlPng), Str(DataUrlText),
                           Str(RemoteUrl)}}

\* What one provider does in a run: no credential, or a credential and a
\* transport that succeeds, fails or never responds.
ProviderBehaviours ==
    {[credential |-> FALSE, transport |-> "never responds"]}
    \cup [credential : {TRUE}, transport : TransportBehaviours]

BehaviourOf(r, p) ==
    [credential |-> deps[r].providerAvailability[p],
     transport |-> network[r].transport[p]]

\* The providers whose behaviour differs between the two runs
Differing == {p \in Providers : BehaviourOf("A", p) # BehaviourOf("B", p)}

\* The providers a body of PairBodies selects
Selected(b) == {b.providers.v[i].v : i \in 1..Len(b.providers.v)}

InitPair ==
    /\ isProduction \in BOOLEAN
    /\ pc = [r \in RunIds |-> IF r = "A" THEN "received" ELSE "queued"]
    /\ \E b \in PairBodies :
          /\ body = [r \in RunIds |-> b]
          /\ \E behaviourA \in
                   {f \in [Providers -> ProviderBehaviours] :
                       \A p \in Providers \ Selected(b) : ~f[p].credential},
                P \in Selected(b), behaviourP \in ProviderBehaviours,
                image \in IF b.imageUrl = Str(RemoteUrl)
                          THEN ImageBehaviours ELSE {[kind |-> "any"]} :
                LET behaviour ==
                        [r \in RunIds |->
                            IF r = "A" THEN behaviourA
                            ELSE [behaviourA EXCEPT ![P] = behaviourP]]
                IN /\ deps = [r \in RunIds |->
                        [providerAvailability |->
                            [p \in Providers |-> behaviour[r][p].credential]]]
                   /\ network = [r \in RunIds |->
                        [transport |->
                            [p \in Providers |-> behaviour[r][p].transport],
                         image |-> image]]
    /\ InitRun

\* The client, having the response to its request, sends its next request.
SendNextRequest(r) ==
    /\ pc[r] = "queued"
    /\ \A q \in RunIds \ {r} : pc[q] = "done"
    /\ pc' = [pc EXCEPT ![r] = "received"]
    /\ UNCHANGED <<chat, limiter, access, signup,
                   isProduction, network, body, deps, request, timeoutMs,
                   imagePayload, imagePreparationError, imageFetch, tasks,
                   response>>

SendNextRequestStep == \E r \in RunIds : SendNextRequest(r)

NextPair ==
    \/ SendNextRequestStep
    \/ Next

SpecPair == InitPair /\ [][NextPair]_vars

(***************************************************************************)
(* One invocation whose body draws prompt, providers and                   *)
(* providerOptions.timeoutMs from every kind of value parseCompareRequest  *)
(* and toIntegerOrDefault tell apart.                                      *)
(***************************************************************************)
ValidPrompt == Str(<<" ", "h", "i", "\n">>)

ParsePrompts ==
    {UNDEF, NULL, Num(14), Str(<<>>), Str(<<" ", "\n">>), ValidPrompt}

SpacedOpenAi == <<" ", "O", "p", "e", "n", "A", "I", "\n">>

ParseTokens ==
    {Str(OPENAI), Str(DEEPSEEK), Str(ANTHROPIC), Str(SpacedOpenAi),
     Str(<<"G", "e", "m">>), Str(<<" ">>), Num(14), NULL}

\* Arrays in which a token may occur more than once
ParseProviderInputs ==
    {UNDEF, NULL, Str(OPENAI)}
    \cup {Arr(q) : q \in SeqsUpTo(ParseTokens, MaxProviderTokens)}

\* timeoutMs: absent, not a number, zero, negative, fractional, a positive
\* integer, and a string of digits
ParseTimeouts ==
    {UNDEF, NULL, NaN, Str(<<"s", "o", "o", "n">>), Str(<<"1", "5", "0", "0">>),
     Num(0), Num(0 - 2), Num(1), Num(5), Num(3000)}

ParseOptionInputs ==
    {UNDEF, Str(<<"1", "5", "0", "0">>)}
    \cup {[t |-> "object", timeoutMs |-> ms,
           overrides |-> [p \in Providers |-> UNDEF]] : ms \in ParseTimeouts}

\* Every prompt with every providers value; the providerOptions vary for
\* the default providers and for one array.
ParseBodies ==
    {b \in [prompt : ParsePrompts, providers : ParseProviderInputs,
            providerOptions : ParseOptionInputs,
            imageUrl : {UNDEF, Str(RemoteUrl)}] :
        \/ b.providerOptions = UNDEF
        \/ b.providers \in {UNDEF, Arr(<<Str(ANTHROPIC), Str(<<"G", "e", "m">>)>>)}}

InitParse ==
    /\ isProduction \in BOOLEAN
    /\ pc = [r \in RunIds |-> IF r = "A" THEN "received" ELSE "idle"]
    /\ \E b \in ParseBodies :
          body = [r \in RunIds |-> IF r = "A" THEN b ELSE IdleBody]
    /\ \E configured \in BOOLEAN :
          deps = [r \in RunIds |->
                    [providerAvailability |->
                        [p \in Providers |-> r = "A" /\ configured]]]
    /\ network = [r \in RunIds |-> AnyNetwork]
    /\ InitRun

ParseSpec == InitParse /\ [][Next]_vars

(***************************************************************************)
(* Properties of the compare endpoint.                                     *)
(***************************************************************************)
Responded(r) == request[r] # NULL /\ response[r] # NULL

IndexOf(r, provider) ==
    {i \in 1..Len(tasks[r]) : tasks[r][i].provider = provider}

Started(r, i) == tasks[r][i].state # "PENDING"

MissingCredentialResult(provider) ==
    [provider |-> provider, status |-> "error", latencyMs |-> 0,
     error |-> provider \o <<" API key is not configured">>]

\* C1: for every validated request and every order in which the tasks
\* complete, the results of the response are as many as the validated
\* providers and results[i].provider = providers[i] for every i.
C1_ResultsFollowProviders ==
    \A r \in RunIds :
        Responded(r) =>
            LET results == response[r].body.results
                providers == request[r].providers
            IN /\ Len(results) = Len(providers)
               /\ \A i \in 1..Len(providers) :
                     results[i].provider = providers[i]

\* A response to providers given in another order than SUPPORTED_PROVIDERS:
\* the second task succeeded at once and the first timed out afterwards,
\* its call still in flight.
C1_Witness ==
    \E r \in RunIds :
        /\ Responded(r)
        /\ request[r].providers = <<ANTHROPIC, OPENAI>>
        /\ tasks[r][1].state = "TIMEOUT" /\ tasks[r][1].call = "inflight"
        /\ tasks[r][2].state = "SUCCESS"
        /\ response[r].body.results[2].latencyMs
              < response[r].body.results[1].latencyMs

\* C3, at the response: every selected provider is in a terminal state and
\* has exactly one result, the one its task resolved with.
C3_AtResponse ==
    \A r \in RunIds :
        /\ \A i \in 1..Len(tasks[r]) :
              (tasks[r][i].state \in TerminalStates)
                 <=> (tasks[r][i].result # NULL)
        /\ Responded(r) =>
              \A i \in 1..Len(tasks[r]) :
                 /\ tasks[r][i].state \in TerminalStates
                 /\ response[r].body.results[i] = tasks[r][i].result
                 /\ Cardinality({j \in 1..Len(response[r].body.results) :
                        response[r].body.results[j].provider
                           = request[r].providers[i]}) = 1

\* C3, step by step: a terminal state and its result are never left, a
\* no-dispatch terminal state is entered from PENDING, and the others from
\* DISPATCHED.
C3_TaskStep ==
    \A r \in RunIds : \A i \in 1..Len(tasks[r]) :
        LET old == tasks[r][i]
            new == tasks'[r][i]
        IN /\ old.state \in TerminalStates =>
                 new.state = old.state /\ new.result = old.result
           /\ (new.state # old.state /\ new.state \in NoDispatchStates) =>
                 old.state = "PENDING"
           /\ (new.state # old.state /\ new.state \in AfterDispatchStates) =>
                 old.state = "DISPATCHED"

\* C3: every selected provider of a validated request reaches exactly one
\* terminal state and contributes exactly one result; a terminal state is
\* never left, and a no-dispatch terminal state is reached directly from
\* PENDING, not through DISPATCHED.
C3_OneTerminalResult ==
    /\ []C3_AtResponse
    /\ [][C3_TaskStep]_vars
    /\ \A r \in RunIds :
          (request[r] # NULL) ~>
             (/\ Responded(r)
              /\ \A i \in 1..Len(tasks[r]) :
                    tasks[r][i].state \in TerminalStates)

\* A timed-out task whose abandoned call has settled after the response.
C3_Witness ==
    \E r \in RunIds : \E i \in 1..Len(tasks[r]) :
        /\ Responded(r)
        /\ tasks[r][i].state = "TIMEOUT"
        /\ tasks[r][i].call = "settled"
        /\ \E j \in 1..Len(tasks[r]) : tasks[r][j].state = "DISABLED"

\* C4: once parseCompareRequest has accepted the request, runCompare never
\* rejects, no task rejects, and the response, once sent, has status 200
\* and a body with one result per provider, whatever credentials, image
\* preparation, transports and timers do.
C4_AlwaysOk ==
    \A r \in RunIds :
        request[r] # NULL =>
            /\ pc[r] # "rejected"
            /\ \A i \in 1..Len(tasks[r]) : tasks[r][i].state # "REJECTED"
            /\ pc[r] = "done" =>
                  /\ response[r] # NULL
                  /\ response[r].status = 200
                  /\ Len(response[r].body.results) = Len(request[r].providers)
            /\ (pc[r] = "awaitAll"
                  /\ (\A i \in 1..Len(tasks[r]) :
                         tasks[r][i].state # "DISPATCHED"))
                  => ENABLED Respond(r)

\* A 200 response all of whose three results are errors: a missing
\* credential, an upstream failure and a timeout.
C4_Witness ==
    \E r \in RunIds :
        /\ Responded(r)
        /\ response[r].status = 200
        /\ {tasks[r][i].state : i \in 1..Len(tasks[r])}
              = {"DISABLED", "UPSTREAM_ERROR", "TIMEOUT"}

\* C5: within one compare request the executor and the transport of each
\* selected provider are invoked at most once, whatever the outcome.
C5_AtMostOneAttempt ==
    \A r \in RunIds : \A i \in 1..Len(tasks[r]) :
        tasks[r][i].execCalls <= 1 /\ tasks[r][i].transportCalls <= 1

\* A response that holds an upstream failure and a timeout, each after one
\* attempt.
C5_Witness ==
    \E r \in RunIds : \E i, j \in 1..Len(tasks[r]) :
        /\ Responded(r)
        /\ tasks[r][i].state = "UPSTREAM_ERROR" /\ tasks[r][i].execCalls = 1
        /\ tasks[r][j].state = "TIMEOUT" /\ tasks[r][j].transportCalls = 1

\* C6: a selected provider without credential, in a request without image,
\* gets exactly {provider, status: 'error', latencyMs: 0,
\* error: '<provider> API key is not configured'}, and neither its executor
\* nor its transport is invoked.
C6_MissingCredential ==
    \A r \in RunIds : \A i \in 1..Len(tasks[r]) :
        LET task == tasks[r][i] IN
        (/\ Started(r, i)
         /\ ~deps[r].providerAvailability[task.provider]
         /\ request[r].imageUrl = UNDEF) =>
            /\ task.result = MissingCredentialResult(task.provider)
            /\ task.execCalls = 0
            /\ task.transportCalls = 0
            /\ task.call = "none"
            /\ Responded(r) =>
                  response[r].body.results[i]
                     = MissingCredentialResult(task.provider)

\* The case of the smoke test: openai succeeds, deepseek has no key.
C6_Witness ==
    \E r \in RunIds :
        /\ Responded(r)
        /\ request[r].imageUrl = UNDEF
        /\ request[r].providers = <<OPENAI, DEEPSEEK>>
        /\ response[r].body.results[1].status = "success"
        /\ response[r].body.results[2] = MissingCredentialResult(DEEPSEEK)

\* C7: a selected provider without credential gets the missing-credential
\* error with latencyMs 0 in every image situation: no image, image
\* requested, image requested and image preparation failed.
C7_CredentialGateFirst ==
    \A r \in RunIds : \A i \in 1..Len(tasks[r]) :
        LET task == tasks[r][i] IN
        (Started(r, i) /\ ~deps[r].providerAvailability[task.provider]) =>
            task.result = MissingCredentialResult(task.provider)

UnsupportedImageResult ==
    [provider |-> DEEPSEEK, status |-> "error", latencyMs |-> 0,
     error |->
    <<"Image input is not supported for the configured DeepSeek text model.">>]

\* C8: with an image requested and deepseek selected with its credential,
\* deepseek's result is exactly the unsupported-image error with latencyMs
\* 0, the deepseek executor and transport are not invoked, and a request
\* that selects deepseek alone starts no image fetch.
C8_DeepSeekImage ==
    \A r \in RunIds : \A i \in 1..Len(tasks[r]) :
        LET task == tasks[r][i] IN
        (/\ Started(r, i)
         /\ task.provider = DEEPSEEK
         /\ deps[r].providerAvailability[DEEPSEEK]
         /\ request[r].imageUrl # UNDEF) =>
            /\ task.result = UnsupportedImageResult
            /\ task.execCalls = 0
            /\ task.transportCalls = 0
            /\ task.call = "none"
            /\ Len(tasks[r]) = 1 => imageFetch[r].calls = 0
            /\ Responded(r) =>
                  response[r].body.results[i] = UnsupportedImageResult

\* The case of the smoke test: a remote image and deepseek alone.
C8_Witness ==
    \E r \in RunIds :
        /\ Responded(r)
        /\ request[r].imageUrl = Str(RemoteUrl)
        /\ request[r].providers = <<DEEPSEEK>>
        /\ response[r].body.results = <<UnsupportedImageResult>>
        /\ imageFetch[r].calls = 0

\* What the client is told of the failure of the image preparation
PreparationFailureText(r) ==
    LET error == imagePreparationError[r]
        data == IF error.response = UNDEF THEN UNDEF ELSE error.response.data
    IN IF isProduction THEN productionErrorDetails
       ELSE IF data # UNDEF THEN JsonStringify(data)
       ELSE error.message

\* C9: when image preparation fails the request still gets its 200
\* response; each selected image-capable provider gets an error result with
\* latencyMs 0 that carries the sanitized preparation failure, without its
\* executor being invoked; and deepseek gets the result it gets when the
\* preparation succeeds: its own credential or capability error.
C9_PreparationFailure ==
    \A r \in RunIds :
        /\ (imagePreparationError[r] # NULL /\ pc[r] = "done") =>
              response[r] # NULL /\ response[r].status = 200
        /\ \A i \in 1..Len(tasks[r]) :
              LET task == tasks[r][i] IN
              /\ (/\ Started(r, i)
                  /\ imagePreparationError[r] # NULL
                  /\ task.provider \in {OPENAI, ANTHROPIC}) =>
                    /\ task.result =
                          [provider |-> task.provider, status |-> "error",
                           latencyMs |-> 0,
                           error |-> PreparationFailureText(r)]
                    /\ task.execCalls = 0
                    /\ task.transportCalls = 0
              /\ (/\ Started(r, i)
                  /\ task.provider = DEEPSEEK
                  /\ (imagePreparationError[r] # NULL
                        \/ imagePayload[r] # NULL)) =>
                    task.result =
                       IF deps[r].providerAvailability[DEEPSEEK]
                       THEN UnsupportedImageResult
                       ELSE MissingCredentialResult(DEEPSEEK)

\* A response after a failed image fetch: openai carries the preparation
\* failure and deepseek its own capability error.
C9_Witness ==
    \E r \in RunIds : \E i, j \in 1..Len(tasks[r]) :
        /\ Responded(r)
        /\ imageFetch[r].calls = 1
        /\ imagePreparationError[r] # NULL
        /\ tasks[r][i].provider = OPENAI
        /\ tasks[r][i].state = "IMAGE_BLOCKED"
        /\ response[r].body.results[i].error = PreparationFailureText(r)
        /\ tasks[r][j].provider = DEEPSEEK
        /\ response[r].body.results[j] = UnsupportedImageResult

\* The effective timeout of a request body
EffectiveTimeout(b) ==
    IF b.providerOptions = UNDEF THEN 45000
    ELSE IF b.providerOptions.timeoutMs = Num(3000) THEN 1500
    ELSE 45000

\* C10: a dispatched provider whose call has not completed when timeoutMs
\* has elapsed gets status 'error' and the error
\* '<provider> request timed out after <timeoutMs>ms', with the effective
\* timeoutMs, in production and outside it.
C10_TimeoutResult ==
    \A r \in RunIds : \A i \in 1..Len(tasks[r]) :
        LET task == tasks[r][i] IN
        task.timer = "fired" =>
            /\ task.result.provider = task.provider
            /\ task.result.status = "error"
            /\ task.result.error =
                  task.provider \o <<" request timed out after ",
                                     ToString(EffectiveTimeout(body[r])), "ms">>
            /\ task.result.latencyMs >= EffectiveTimeout(body[r])
            /\ Responded(r) => response[r].body.results[i] = task.result

\* In production, a response with a timeout after 1500 ms beside a success.
C10_Witness ==
    \E r \in RunIds : \E i, j \in 1..Len(tasks[r]) :
        /\ isProduction
        /\ Responded(r)
        /\ tasks[r][i].timer = "fired"
        /\ response[r].body.results[i].error =
              tasks[r][i].provider
                 \o <<" request timed out after ", "1500", "ms">>
        /\ response[r].body.results[j].status = "success"

\* The status, text and error of a result
Outcome(result) ==
    [status |-> result.status,
     text |-> IF "text" \in DOMAIN result THEN Str(result.text) ELSE UNDEF,
     error |-> IF "error" \in DOMAIN result THEN Str(result.error) ELSE UNDEF]

\* C2: when two runs of the same validated request differ only in what one
\* selected provider P does (no credential, or a transport that succeeds,
\* fails or never responds), every other selected provider has the same
\* status, text and error in both responses.
C2_OtherProvidersUnaffected ==
    (/\ Responded("A") /\ Responded("B")
     /\ request["A"] = request["B"]
     /\ network["A"].image = network["B"].image
     /\ Cardinality(Differing) <= 1) =>
        LET resultsA == response["A"].body.results
            resultsB == response["B"].body.results
        IN /\ Len(resultsA) = Len(resultsB)
           /\ \A i \in 1..Len(resultsA) :
                 resultsA[i].provider \notin Differing =>
                    Outcome(resultsA[i]) = Outcome(resultsB[i])

\* Two responses to a request with an image: P has a different outcome in
\* each, and another provider succeeded in both.
C2_Witness ==
    /\ Responded("A") /\ Responded("B")
    /\ request["A"].imageUrl # UNDEF
    /\ \E i, j \in 1..Len(response["A"].body.results) :
          LET resultsA == response["A"].body.results
              resultsB == response["B"].body.results
          IN /\ resultsA[i].provider \in Differing
             /\ Outcome(resultsA[i]) # Outcome(resultsB[i])
             /\ resultsA[j].provider \notin Differing
             /\ resultsA[j].status = "success"
             /\ resultsB[j].status = "success"

\* C11: runCompare returns, and the response is sent, only when every
\* selected provider's task is in a terminal state: no response exists
\* while a task is PENDING or DISPATCHED, and the step that sends it starts
\* from a state where every task is terminal.
C11_ResponseAfterAllTasks ==
    \A r \in RunIds :
        /\ (request[r] # NULL /\ (response[r] # NULL \/ pc[r] = "done")) =>
              \A i \in 1..Len(tasks[r]) :
                 /\ tasks[r][i].state \notin {"PENDING", "DISPATCHED"}
                 /\ tasks[r][i].state \in TerminalStates
                 /\ response[r].body.results[i] # NULL
        /\ (pc[r] = "awaitAll"
               /\ \E i \in 1..Len(tasks[r]) :
                      tasks[r][i].state \in {"PENDING", "DISPATCHED"}) =>
              ~ENABLED Respond(r)

\* A response that had to wait: one task succeeded at once and another was
\* ended only by its timer, later than timeoutMs.
C11_Witness ==
    \E r \in RunIds : \E i, j \in 1..Len(tasks[r]) :
        /\ Responded(r)
        /\ tasks[r][i].state = "SUCCESS"
        /\ tasks[r][i].result.latencyMs = 0
        /\ tasks[r][j].state = "TIMEOUT"
        /\ tasks[r][j].result.latencyMs > timeoutMs[r]

\* C12: when timers fire and the image fetch ends, every validated
\* request is eventually answered, whichever of the dispatched provider
\* transports never complete.
C12_EventuallyResponds ==
    \A r \in RunIds : (request[r] # NULL) ~> Responded(r)

\* A response to a request with an image all of whose dispatched calls are
\* still in flight: only the timers ended the tasks.
C12_Witness ==
    \E r \in RunIds :
        /\ Responded(r)
        /\ imagePayload[r] # NULL
        /\ \E i \in 1..Len(tasks[r]) : tasks[r][i].state = "TIMEOUT"
        /\ \A i \in 1..Len(tasks[r]) :
              /\ tasks[r][i].state \in {"TIMEOUT", "UNSUPPORTED_CAPABILITY"}
              /\ tasks[r][i].state = "TIMEOUT" => tasks[r][i].call = "inflight"

PromptError == <<"\"prompt\" is required and must be a non-empty string.">>

\* C13: a request whose prompt is missing, is not a string, or is empty
\* once trimmed is answered 400 with {error, unsupportedProviders}, and
\* neither an image fetch nor a provider task, executor or transport is
\* started for it.
C13_InvalidPrompt ==
    \A r \in RunIds :
        (pc[r] # "idle"
           /\ (body[r].prompt.t # "string"
                 \/ \A k \in 1..Len(body[r].prompt.v) :
                       body[r].prompt.v[k] \in {" ", "\n", "\t"})) =>
            /\ pc[r] \in {"received", "done"}
            /\ request[r] = NULL
            /\ imageFetch[r].calls = 0
            /\ tasks[r] = <<>>
            /\ pc[r] = "done" =>
                  response[r] = [status |-> 400,
                                 body |-> [error |-> PromptError,
                                           unsupportedProviders |-> <<>>]]

\* The 400 answer to a body without string prompt that names supported
\* providers and an image, with every credential configured.
C13_Witness ==
    \E r \in RunIds :
        /\ pc[r] = "done"
        /\ body[r].prompt = Num(14)
        /\ body[r].providers = Arr(<<Str(OPENAI), Str(DEEPSEEK)>>)
        /\ body[r].imageUrl = Str(RemoteUrl)
        /\ deps[r].providerAvailability[OPENAI]
        /\ response[r].status = 400

\* Whether a token of a providers array normalizes to a supported id
NormalizesToSupported(token) ==
    token.t = "string" /\ Trim(ToLowerCase(token.v)) \in Providers

\* The string that stands for a token in unsupportedProviders
ReportedAs(token) == IF token.t = "string" THEN token.v ELSE JsString(token)

\* The unsupportedProviders of a response, accepted or refused
ReportedUnsupported(r) ==
    IF response[r].status = 200
    THEN response[r].body.request.unsupportedProviders
    ELSE response[r].body.unsupportedProviders

\* C14: every token of the providers array that is not a supported id is
\* in the unsupportedProviders of the response and has no task; and when
\* no token normalizes to a supported id the response is a 400 that still
\* reports them.
C14_UnsupportedReported ==
    \A r \in RunIds :
        (/\ pc[r] = "done"
         /\ body[r].prompt = ValidPrompt
         /\ body[r].providers.t = "array") =>
            LET tokens == body[r].providers.v IN
            /\ \A k \in 1..Len(tokens) :
                  ~NormalizesToSupported(tokens[k]) =>
                     Includes(ReportedUnsupported(r), ReportedAs(tokens[k]))
            /\ \A i \in 1..Len(tasks[r]) :
                  \E k \in 1..Len(tokens) :
                     /\ NormalizesToSupported(tokens[k])
                     /\ tasks[r][i].provider = Trim(ToLowerCase(tokens[k].v))
            /\ (\A k \in 1..Len(tokens) : ~NormalizesToSupported(tokens[k]))
                  => response[r].status = 400

\* The place of the first token of an array that normalizes to provider
FirstOccurrence(tokens, provider) ==
    CHOOSE k \in 1..Len(tokens) :
        /\ NormalizesToSupported(tokens[k])
        /\ Trim(ToLowerCase(tokens[k].v)) = provider
        /\ \A j \in 1..(k - 1) :
              ~(NormalizesToSupported(tokens[j])
                  /\ Trim(ToLowerCase(tokens[j].v)) = provider)

C16_DefaultProviders ==
    \A r \in RunIds :
        (request[r] # NULL /\ body[r].providers = UNDEF) =>
            /\ request[r].providers =
                  << <<"o", "p", "e", "n", "a", "i">>,
                     <<"d", "e", "e", "p", "s", "e", "e", "k">>,
                     <<"a", "n", "t", "h", "r", "o", "p", "i", "c">> >>
            /\ request[r].unsupportedProviders = <<>>
            /\ pc[r] \notin {"received", "runCompare"} => Len(tasks[r]) = 3
            /\ Responded(r) =>
                  /\ response[r].status = 200
                  /\ response[r].body.request.providers = request[r].providers
                  /\ response[r].body.request.unsupportedProviders = <<>>
                  /\ [i \in 1..Len(response[r].body.results) |->
                        response[r].body.results[i].provider]
                       = request[r].providers

\* The response to a body that holds a prompt only, with every credential
\* configured: three results, none of them a missing-credential error.
C16_Witness ==
    \E r \in RunIds :
        /\ Responded(r)
        /\ body[r].providers = UNDEF
        /\ body[r].providerOptions = UNDEF
        /\ body[r].imageUrl = UNDEF
        /\ Len(response[r].body.results) = 3
        /\ \A i \in 1..3 : tasks[r][i].execCalls = 1

\* The providerOptions.timeoutMs a body supplies
SuppliedTimeout(b) ==
    IF b.providerOptions.t = "object" THEN b.providerOptions.timeoutMs
    ELSE UNDEF

\* Whether a supplied timeoutMs is a string of digits, which is neither a
\* number nor non-numeric
IsDigitString(v) ==
    /\ v.t = "string"
    /\ v.v # <<>>
    /\ \A k \in 1..Len(v.v) :
          v.v[k] \in {"0", "1", "2", "3", "4", "5", "6", "7", "8", "9"}

\* C17: the timeoutMs of a validated request, used for its timers and
\* echoed in its response, is an integer of at least 1: the supplied
\* value when that is a positive integer, and 45000 when it is absent, not
\* numeric, zero, negative or fractional.
C17_EffectiveTimeout ==
    \A r \in RunIds :
        (request[r] # NULL /\ pc[r] \notin {"received", "runCompare"}) =>
            LET v == SuppliedTimeout(body[r]) IN
            /\ timeoutMs[r] >= 1
            /\ (v.t = "number" /\ v.finite /\ v.halves > 0
                   /\ v.halves % 2 = 0) => timeoutMs[r] = v.halves \div 2
            /\ (~IsDigitString(v)
                   /\ ~(v.t = "number" /\ v.finite /\ v.halves > 0
                          /\ v.halves % 2 = 0)) => timeoutMs[r] = 45000
            /\ Responded(r) =>
                  response[r].body.request.timeoutMs = timeoutMs[r]

\* The tasks of run r whose provider takes the prepared image and whose
\* executor has been invoked
InvokedImageExecutors(r) ==
    {i \in 1..Len(tasks[r]) :
        /\ tasks[r][i].provider \in {OPENAI, ANTHROPIC}
        /\ tasks[r][i].execCalls > 0}

\* C18: within one compare request image preparation runs at most once
\* (and fetches at most once), and when the executor of openai or anthropic
\* has been invoked for a request that needs the image, the preparation is
\* over: nothing is in flight, and a payload or a failure is recorded.
C18_PreparationBeforeExecutors ==
    \A r \in RunIds :
        /\ imageFetch[r].prepareCalls <= 1
        /\ imageFetch[r].calls <= imageFetch[r].prepareCalls
        /\ (request[r] # NULL /\ needsPreparedImage(request[r])
              /\ InvokedImageExecutors(r) # {}) =>
                /\ imageFetch[r].prepareCalls = 1
                /\ imageFetch[r].state # "inflight"
                /\ (imagePayload[r] # NULL
                      \/ imagePreparationError[r] # NULL)

\* An executor of openai or anthropic invoked after a fetched image was
\* prepared
C18_Witness ==
    /\ InvokedImageExecutors("A") # {}
    /\ imageFetch["A"].calls = 1
    /\ imageFetch["A"].state = "settled"
    /\ imagePayload["A"] # NULL

\* C19: image preparation, and with it the image fetch, has started only
\* for a request whose body has an imageUrl (a string that is not blank)
\* and that selects openai or anthropic; without an imageUrl, or with
\* deepseek alone, neither ever starts.
C19_PreparationOnlyWhenNeeded ==
    \A r \in RunIds :
        (imageFetch[r].prepareCalls > 0 \/ imageFetch[r].calls > 0
           \/ imageFetch[r].state # "none" \/ imagePayload[r] # NULL
           \/ imagePreparationError[r] # NULL) =>
            /\ request[r] # NULL
            /\ IsString(body[r].imageUrl)
            /\ Trim(body[r].imageUrl.v) # <<>>
            /\ \E i \in 1..Len(request[r].providers) :
                  request[r].providers[i] \in {OPENAI, ANTHROPIC}

\* A request with an image that selects deepseek and anthropic has started
\* the preparation.
C19_Witness ==
    /\ imageFetch["A"].prepareCalls = 1
    /\ request["A"].providers = <<DEEPSEEK, ANTHROPIC>>

\* C20: for a request whose imageUrl is an inline image (a data: URL),
\* image preparation calls no fetch, whether it ends with a payload or
\* with an error: the count of axios.get calls stays zero.
C20_InlineImageNoFetch ==
    \A r \in RunIds :
        (/\ request[r] # NULL
         /\ IsString(request[r].imageUrl)
         /\ request[r].imageUrl.v # <<>>
         /\ LowerAtom(request[r].imageUrl.v[1]) = "data:") =>
            /\ imageFetch[r].calls = 0
            /\ imageFetch[r].state = "none"

(***************************************************************************)
(* Requests with images of every kind, for the claims about the prepared   *)
(* image and what the executors send.                                      *)
(***************************************************************************)
MAX_IMAGE_BYTES == 10485760

\* A base64 text of 13981016 characters, which encodes 10485762 bytes
HugeBase64 == "AAAA...(13981016 base64 characters)"

\* An inline image larger than MAX_IMAGE_BYTES, one whose media type is in
\* upper case, and one whose payload is white space
DataUrlHuge == <<"data:", "image/png", ";base64,", HugeBase64>>
DataUrlUpper == <<"DATA:", "IMAGE/PNG", ";BASE64,", "AAAA", "\n">>
DataUrlBlank == <<"data:", "image/png", ";base64,", " ">>

\* The bytes a fragment of base64 text encodes
DecodedBytes(fragment) ==
    CASE fragment = HugeBase64 -> 10485762
      [] fragment = "AAAA" -> 3
      [] fragment = "b64:PNGBYTES" -> 8
      [] OTHER -> 0

RECURSIVE ByteSize(_)
ByteSize(data) ==
    IF data = <<>> THEN 0 ELSE DecodedBytes(Head(data)) + ByteSize(Tail(data))

\* providerOptions whose override for openai holds an imagePayload of its own
OverrideWithImagePayload ==
    [t |-> "object", timeoutMs |-> UNDEF,
     overrides |-> [p \in Providers |->
        IF p = OPENAI
        THEN [t |-> "object",
              imagePayload |-> [t |-> "object",
                                openAiImageUrl |-> Str(DataUrlPng)]]
        ELSE UNDEF]]

ImageBodies ==
    [prompt : {Str(<<" ", "h", "i", "\n">>)},
     providers : {UNDEF, Arr(<<Str(OPENAI)>>), Arr(<<Str(ANTHROPIC)>>),
                  Arr(<<Str(ANTHROPIC), Str(OPENAI)>>),
                  Arr(<<Str(<<"G", "e", "m">>), Str(OPENAI)>>)},
     providerOptions : {UNDEF, OverrideWithImagePayload},
     imageUrl : ImageUrls \cup {Str(DataUrlHuge), Str(DataUrlUpper),
                                Str(DataUrlBlank), NULL, Num(14),
                                Str(<<>>)}]

InitImage ==
    /\ isProduction \in BOOLEAN
    /\ pc = [r \in RunIds |-> IF r = "A" THEN "received" ELSE "idle"]
    /\ \E b \in ImageBodies :
          body = [r \in RunIds |-> IF r = "A" THEN b ELSE IdleBody]
    /\ \E availability \in Availabilities :
          deps = [r \in RunIds |->
                    [providerAvailability |->
                        IF r = "A" THEN availability
                        ELSE [p \in Providers |-> FALSE]]]
    /\ network = [r \in RunIds |-> AnyNetwork]
    /\ InitRun

ImageSpec == InitImage /\ [][Next]_vars

\* C21: every image payload that image preparation produced, from an
\* inline image or from a fetched one, has a media type that starts with
\* "image/", a payload that is not empty, and at most MAX_IMAGE_BYTES
\* (10 MiB) of image bytes.
C21_PayloadWellFormed ==
    \A r \in RunIds :
        imagePayload[r] # NULL =>
            LET source == imagePayload[r].anthropicImageSource IN
            /\ StartsWithImage(source.media_type)
            /\ source.data # <<>>
            /\ ByteSize(source.data) > 0
            /\ ByteSize(source.data) <= MAX_IMAGE_BYTES

\* The content the openai executor would send for a prompt and an image URL
\* handed on as it is
OpenAiImageContent(prompt, url) ==
    Arr(<<[type |-> "input_text", text |-> Str(prompt)],
          [type |-> "input_image", image_url |-> url]>>)

\* C22: a request with the remote imageUrl U and providers [openai], with
\* the OpenAI credential configured, is answered with a success (unless the
\* OpenAI transport itself failed or timed out), and the user message sent
\* to the OpenAI transport has the content
\* [{type: input_text, text: prompt}, {type: input_image, image_url: U}].
C22_RemoteUrlForwarded ==
    \A r \in RunIds :
        (/\ Responded(r)
         /\ response[r].status = 200
         /\ body[r].imageUrl = Str(RemoteUrl)
         /\ request[r].providers = <<OPENAI>>
         /\ deps[r].providerAvailability[OPENAI]) =>
            LET task == tasks[r][1] IN
            /\ task.state \notin {"UPSTREAM_ERROR", "TIMEOUT"}
                  => task.result.status = "success"
            /\ task.sent # NULL
            /\ task.sent.messages[1].content =
                  OpenAiImageContent(request[r].prompt, RemoteUrl)

\* The tasks of run r that sent a request to openai or anthropic
SentImageCapable(r) ==
    {i \in 1..Len(tasks[r]) :
        /\ tasks[r][i].provider \in {OPENAI, ANTHROPIC}
        /\ tasks[r][i].sent # NULL}

PreparationErrors ==
    FetchErrors
    \cup {Err(<<"imageUrl data URL must contain an image media type.">>),
          Err(<<"imageUrl data URL is missing base64 image data.">>),
          Err(<<"imageUrl must point to an image resource.">>),
          Err(<<"imageUrl resource is empty.">>)}

\* The error strings the results of one kind can carry in this deployment
ErrorStringsOf(kind) ==
    CASE kind = "DISABLED" ->
            {p \o <<" API key is not configured">> : p \in Providers}
      [] kind = "UNSUPPORTED_CAPABILITY" ->
            {<<"Image input is not supported for the configured DeepSeek text model.">>}
      [] kind = "IMAGE_BLOCKED" ->
            {getClientErrorDetails(e) : e \in PreparationErrors}
      [] kind = "TIMEOUT" ->
            {getClientErrorDetails(TimeoutError(p, ms)) :
                p \in Providers, ms \in {0, 1, 2, 1500, DEFAULT_COMPARE_TIMEOUT_MS}}
      [] kind = "UPSTREAM_ERROR" ->
            {getClientErrorDetails(e) : e \in UpstreamErrors}

ErrorKinds ==
    {"DISABLED", "UNSUPPORTED_CAPABILITY", "IMAGE_BLOCKED", "TIMEOUT",
     "UPSTREAM_ERROR"}

\* C25: in every deployment mode the error string of a result tells its
\* kind: the string of a result of one of the five kinds (missing
\* credential, unsupported capability, image preparation failure, timeout,
\* upstream failure) is not a string that a result of another kind carries.
C25_ErrorKindsDistinct ==
    \A r \in RunIds : \A i \in 1..Len(tasks[r]) :
        tasks[r][i].state \in ErrorKinds =>
            /\ tasks[r][i].result.error \in ErrorStringsOf(tasks[r][i].state)
            /\ \A other \in ErrorKinds \ {tasks[r][i].state} :
                  tasks[r][i].result.error \notin ErrorStringsOf(other)

\* C26: two runs of runCompare with the same request, the same provider
\* availability and the same behaviour of every transport, of the image
\* fetch and of the timers give, provider by provider, the same status,
\* text and error; latencyMs may differ.
C26_Deterministic ==
    (/\ Responded("A") /\ Responded("B")
     /\ request["A"] = request["B"]
     /\ deps["A"] = deps["B"]
     /\ network["A"] = network["B"]) =>
        LET resultsA == response["A"].body.results
            resultsB == response["B"].body.results
        IN /\ response["A"].status = response["B"].status
           /\ Len(resultsA) = Len(resultsB)
           /\ \A i \in 1..Len(resultsA) :
                 /\ resultsA[i].provider = resultsB[i].provider
                 /\ Outcome(resultsA[i]) = Outcome(resultsB[i])

\* Two responses of runs that behaved alike: one provider succeeded, and
\* another failed after a different time in each run.
C26_Witness ==
    /\ Responded("A") /\ Responded("B")
    /\ deps["A"] = deps["B"]
    /\ network["A"] = network["B"]
    /\ \E i, j \in 1..Len(response["A"].body.results) :
          LET resultsA == response["A"].body.results
              resultsB == response["B"].body.results
          IN /\ resultsA[i].status = "success"
             /\ resultsA[j].status = "error"
             /\ resultsA[j].latencyMs # resultsB[j].latencyMs

\* C27: for each of the three executors the text of a success result is
\* the text-bearing segments of the provider's answer in order, joined by
\* newlines and trimmed; it neither starts nor ends with white space.
C27_TextTrimmed ==
    \A r \in RunIds : \A i \in 1..Len(tasks[r]) :
        tasks[r][i].state = "SUCCESS" =>
            LET text == tasks[r][i].result.text IN
            /\ text = Trim(Join(OkSegments))
            /\ text # <<>> => (~IsSpace(text[1]) /\ ~IsSpace(text[Len(text)]))

\* C28: a request with a valid prompt and valid providers whose imageUrl is
\* present but is not a string, or is empty after trimming, is answered
\* with 400, the error "\"imageUrl\" must be a non-empty string when
\* provided." and the unsupportedProviders found in its providers; no
\* image is fetched and no provider task exists.
C28_InvalidImageUrl ==
    \A r \in RunIds :
        (/\ pc[r] \notin {"idle", "queued", "received"}
         /\ IsString(body[r].prompt) /\ Trim(body[r].prompt.v) # <<>>
         /\ "validationError" \notin
                DOMAIN normalizeProvidersInput(body[r].providers)
         /\ body[r].imageUrl # UNDEF
         /\ \/ body[r].imageUrl.t # "string"
            \/ \A k \in 1..Len(body[r].imageUrl.v) :
                  IsSpace(body[r].imageUrl.v[k])) =>
            /\ pc[r] = "done"
            /\ response[r] =
                  [status |-> 400,
                   body |-> [error |->
                       <<"\"imageUrl\" must be a non-empty string when provided.">>,
                             unsupportedProviders |->
                       normalizeProvidersInput(body[r].providers)
                           .unsupportedProviders]]
            /\ request[r] = NULL
            /\ imageFetch[r] = NoFetch
            /\ tasks[r] = <<>>

\* A request with a blank imageUrl and an unsupported provider next to a
\* supported one has been refused.
C28_Witness ==
    /\ pc["A"] = "done"
    /\ body["A"].imageUrl = Str(<<" ">>)
    /\ response["A"].status = 400
    /\ response["A"].body.unsupportedProviders = << <<"G", "e", "m">> >>

(***************************************************************************)
(* src/api/index.js and src/api/routes.js: the chat and transcript routes. *)
(* One request runs through a provider-key middleware and its route        *)
(* handler; the middlewares before them have called next.                  *)
(***************************************************************************)
ProviderLabel(provider) ==
    CASE provider = OPENAI -> <<"OpenAI">>
      [] provider = DEEPSEEK -> <<"DeepSeek">>
      [] provider = ANTHROPIC -> <<"Anthropic">>

\* Mutant of requireApiKey: the return before next() is missing.
requireApiKeyFallThrough(apiKey, label) ==
    [send |-> IF ~apiKey
              THEN [status |-> 500,
                    body |-> [error |-> label \o
                        <<" API key is not set in environment variables">>]]
              ELSE NULL,
     next |-> TRUE]

\* index.js requireApiKey(apiKey, label): what the middleware sends, and
\* whether it calls next
requireApiKey(apiKey, label) ==
    IF ~apiKey
    THEN [send |-> [status |-> 500,
                    body |-> [error |-> label \o
                        <<" API key is not set in environment variables">>]],
          next |-> FALSE]
    ELSE [send |-> NULL, next |-> TRUE]

\* index.js getValidModelMessages: the response it sends, or NULL
getValidModelMessages(modelMessages) ==
    IF ~Truthy(modelMessages) \/ modelMessages.t # "array"
    THEN [status |-> 400, body |-> [error |-> <<"Invalid modelMessages format">>]]
    ELSE NULL

\* Mutant of getTranscriptOrRespondStart: Firebase is looked at first.
getTranscriptOrRespondStartDbFirst(videoID, db) ==
    IF db.kind = "none"
    THEN [status |-> 503, body |-> [error |->
            <<"Transcript service is unavailable. Firebase is not configured.">>]]
    ELSE IF ~Truthy(videoID)
    THEN [status |-> 400, body |-> [error |-> <<"Invalid video ID">>]]
    ELSE NULL

\* index.js getTranscriptOrRespond up to the await of the lookup: the
\* response it sends, or NULL when it goes on to the lookup
getTranscriptOrRespondStart(videoID, db) ==
    IF ~Truthy(videoID)
    THEN [status |-> 400, body |-> [error |-> <<"Invalid video ID">>]]
    ELSE IF db.kind = "none"
    THEN [status |-> 503, body |-> [error |->
            <<"Transcript service is unavailable. Firebase is not configured.">>]]
    ELSE NULL

\* getTranscriptOrRespond after the lookup resolved with doc: the response
\* it sends, or NULL when it returns the transcript
getTranscriptOrRespondThen(doc) ==
    IF ~doc.exists
    THEN [status |-> 404,
          body |-> [error |-> <<"Transcript not found for this video.">>]]
    ELSE IF ~Truthy(doc.transcript)
            \/ (doc.transcript.t \in {"string", "array"}
                  /\ Len(doc.transcript.v) = 0)
    THEN [status |-> 404, body |-> [error |-> <<"No transcript was found.">>]]
    ELSE NULL

\* getTranscriptOrRespond when the lookup threw
getTranscriptOrRespondCatch ==
    [status |-> 503,
     body |-> [error |-> <<"Transcript service is temporarily unavailable.">>]]

\* index.js createProviderErrorResponse
createProviderErrorResponse(label, error) ==
    [status |-> 500,
     body |-> [error |-> <<"An error occurred while communicating with the ">>
                         \o label \o <<" API">>,
               details |-> getClientErrorDetails(error)]]

\* What a handler sends once its provider call resolved
ChatSuccessResponse(provider, responseData) ==
    [status |-> 200,
     body |-> [data |-> responseData,
               text |-> IF provider = OPENAI
                        THEN Str(extractResponsesText(responseData))
                        ELSE UNDEF]]

ChatRoutes == [kind : {"chat", "transcript"}, provider : Providers]

ChatBodies ==
    [modelMessages : {UNDEF, Str(<<"hi">>),
                      Arr(<<[role |-> "user", content |-> Str(<<"hi">>)]>>)},
     videoID : {UNDEF, Str(<<>>), Str(<<"abc123">>)}]

\* What the transcripts document of a video is
TranscriptDocs ==
    {[exists |-> FALSE, transcript |-> UNDEF],
     [exists |-> TRUE, transcript |-> UNDEF],
     [exists |-> TRUE, transcript |-> Str(<<>>)],
     [exists |-> TRUE, transcript |-> Arr(<<>>)],
     [exists |-> TRUE, transcript |-> Str(<<"Hello and welcome">>)]}

\* Firebase: not configured, or a lookup that resolves with a document or
\* throws
DbBehaviours ==
    {[kind |-> "none"], [kind |-> "throws"]}
    \cup {[kind |-> "resolves", doc |-> doc] : doc \in TranscriptDocs}

\* What a provider call of a chat route rejects with
ChatTransportErrors ==
    UpstreamErrors
    \cup {[code |-> "ERR_BAD_RESPONSE", message |-> <<"Rate limited">>,
           response |-> [status |-> 429,
                         data |-> [t |-> "object",
                                   error |-> [t |-> "object",
                                       message |->
                                         Str(<<"upstream internal detail">>)]]]],
          HttpErr(502, Str(<<"Bad Gateway: node 10.0.3.7">>))}

\* What the provider does when called: it answers, or rejects with an error
UpstreamBehaviours ==
    {[kind |-> "resolves"]}
    \cup {[kind |-> "rejects", error |-> e] : e \in ChatTransportErrors}

InitChat ==
    /\ isProduction \in BOOLEAN
    /\ pc = [r \in RunIds |-> "idle"]
    /\ body = [r \in RunIds |-> IdleBody]
    /\ deps = [r \in RunIds |->
                 [providerAvailability |-> [p \in Providers |-> FALSE]]]
    /\ network = [r \in RunIds |-> AnyNetwork]
    /\ request = [r \in RunIds |-> NULL]
    /\ timeoutMs = [r \in RunIds |-> 0]
    /\ imagePayload = [r \in RunIds |-> NULL]
    /\ imagePreparationError = [r \in RunIds |-> NULL]
    /\ imageFetch = [r \in RunIds |-> NoFetch]
    /\ tasks = [r \in RunIds |-> <<>>]
    /\ response = [r \in RunIds |-> NULL]
    /\ limiter = IdleSecurity
    /\ access = IdleSecurity
    /\ signup = IdleSecurity
    /\ \E route \in ChatRoutes, apiKey \in BOOLEAN, b \in ChatBodies,
          db \in DbBehaviours, upstream \in UpstreamBehaviours :
          chat = [IdleChat EXCEPT !.pc = "middleware", !.route = route,
                                  !.apiKey = apiKey, !.body = b, !.db = db,
                                  !.upstream = upstream]

\* res.status(...).json(...): the response is sent and the request is over
ChatSend(c, sent) ==
    [c EXCEPT !.response = sent, !.sends = @ + 1, !.pc = "done"]

\* requireOpenAiKey, requireDeepSeekKey or requireAnthropicKey runs.
RequireApiKey ==
    /\ chat.pc = "middleware"
    /\ LET outcome == requireApiKey(chat.apiKey,
                                    ProviderLabel(chat.route.provider))
           sent == IF outcome.send # NULL THEN ChatSend(chat, outcome.send)
                   ELSE chat
       IN chat' = IF outcome.next
                  THEN [sent EXCEPT !.nextCalls = @ + 1, !.pc = "handler"]
                  ELSE sent
    /\ UNCHANGED <<limiter, access, signup,
                   isProduction, pc, body, deps, request, timeoutMs,
                   imagePayload, imagePreparationError, imageFetch, network,
                   tasks, response>>

\* A chat handler runs up to the await of its provider call.
ChatHandler ==
    /\ chat.pc = "handler"
    /\ chat.route.kind = "chat"
    /\ LET invalid == getValidModelMessages(chat.body.modelMessages)
           entered == [chat EXCEPT !.handlerCalls = @ + 1]
       IN chat' = IF invalid # NULL THEN ChatSend(entered, invalid)
                  ELSE [entered EXCEPT !.transportCalls = @ + 1,
                                       !.pc = "call"]
    /\ UNCHANGED <<limiter, access, signup,
                   isProduction, pc, body, deps, request, timeoutMs,
                   imagePayload, imagePreparationError, imageFetch, network,
                   tasks, response>>

\* A transcript handler runs up to the await of the transcript lookup.
TranscriptHandler ==
    /\ chat.pc = "handler"
    /\ chat.route.kind = "transcript"
    /\ LET refused == getTranscriptOrRespondStart(chat.body.videoID, chat.db)
           entered == [chat EXCEPT !.handlerCalls = @ + 1]
       IN chat' = IF refused # NULL THEN ChatSend(entered, refused)
                  ELSE [entered EXCEPT !.lookups = @ + 1, !.pc = "lookup"]
    /\ UNCHANGED <<limiter, access, signup,
                   isProduction, pc, body, deps, request, timeoutMs,
                   imagePayload, imagePreparationError, imageFetch, network,
                   tasks, response>>

\* The transcript lookup resolves: the handler answers, or calls the
\* provider with the transcript.
TranscriptLookupResolves ==
    /\ chat.pc = "lookup"
    /\ chat.db.kind = "resolves"
    /\ LET refused == getTranscriptOrRespondThen(chat.db.doc) IN
       chat' = IF refused # NULL THEN ChatSend(chat, refused)
               ELSE [chat EXCEPT !.transportCalls = @ + 1, !.pc = "call"]
    /\ UNCHANGED <<limiter, access, signup,
                   isProduction, pc, body, deps, request, timeoutMs,
                   imagePayload, imagePreparationError, imageFetch, network,
                   tasks, response>>

\* The transcript lookup throws.
TranscriptLookupThrows ==
    /\ chat.pc = "lookup"
    /\ chat.db.kind = "throws"
    /\ chat' = ChatSend(chat, getTranscriptOrRespondCatch)
    /\ UNCHANGED <<limiter, access, signup,
                   isProduction, pc, body, deps, request, timeoutMs,
                   imagePayload, imagePreparationError, imageFetch, network,
                   tasks, response>>

\* The provider call of a handler resolves.
ChatTransportResolves ==
    /\ chat.pc = "call"
    /\ chat.upstream.kind = "resolves"
    /\ \E responseData \in OkResponses(chat.route.provider) :
          chat' = ChatSend(chat, ChatSuccessResponse(chat.route.provider,
                                                     responseData))
    /\ UNCHANGED <<limiter, access, signup,
                   isProduction, pc, body, deps, request, timeoutMs,
                   imagePayload, imagePreparationError, imageFetch, network,
                   tasks, response>>

\* The provider call of a handler rejects: the catch block answers.
ChatTransportRejects ==
    /\ chat.pc = "call"
    /\ chat.upstream.kind = "rejects"
    /\ chat' = ChatSend(chat,
                  createProviderErrorResponse(
                      ProviderLabel(chat.route.provider), chat.upstream.error))
    /\ UNCHANGED <<limiter, access, signup,
                   isProduction, pc, body, deps, request, timeoutMs,
                   imagePayload, imagePreparationError, imageFetch, network,
                   tasks, response>>

NextChat ==
    \/ RequireApiKey
    \/ ChatHandler
    \/ TranscriptHandler
    \/ TranscriptLookupResolves
    \/ TranscriptLookupThrows
    \/ ChatTransportResolves
    \/ ChatTransportRejects

ChatSpec == InitChat /\ [][NextChat]_vars

\* C24: in production the details of the response to a failed provider
\* call are the fixed text "Upstream provider request failed. Check server
\* logs for details.", whatever the upstream response holds.
C24_ProductionDetailsGeneric ==
    (/\ isProduction
     /\ chat.pc = "done"
     /\ chat.transportCalls > 0
     /\ chat.response.status = 500) =>
        chat.response.body.details = productionErrorDetails

\* The response of a key middleware whose key is not configured
MissingKeyResponse(label) ==
    [status |-> 500,
     body |-> [error |-> label \o
                 <<" API key is not set in environment variables">>]]

\* C29: once a provider-key middleware has run, with its key not
\* configured it has sent 500 "<Label> API key is not set in environment
\* variables" and not called next, so neither the handler nor a lookup nor
\* the provider was reached; with the key configured it has called next
\* once and sent nothing itself.
C29_KeyMiddleware ==
    chat.pc \notin {"idle", "middleware"} =>
        IF ~chat.apiKey
        THEN /\ chat.pc = "done"
             /\ chat.response =
                   MissingKeyResponse(ProviderLabel(chat.route.provider))
             /\ chat.sends = 1
             /\ chat.nextCalls = 0
             /\ chat.handlerCalls = 0
             /\ chat.lookups = 0
             /\ chat.transportCalls = 0
        ELSE /\ chat.nextCalls = 1
             /\ chat.handlerCalls <= 1
             /\ chat.sends <= 1
             /\ chat.pc = "handler" => (chat.sends = 0 /\ chat.response = NULL)
             /\ chat.sends = 1 => chat.handlerCalls = 1

\* The DeepSeek key middleware has refused a request.
C29_Witness ==
    /\ chat.pc = "done"
    /\ ~chat.apiKey
    /\ chat.route.provider = DEEPSEEK
    /\ chat.response.status = 500

\* The response a transcript route owes a request whose transcript cannot
\* be loaded, by the first check that fails; NULL when it can be loaded
TranscriptRefusal(videoID, db) ==
    IF videoID = UNDEF \/ videoID = Str(<<>>)
    THEN [status |-> 400, body |-> [error |-> <<"Invalid video ID">>]]
    ELSE IF db.kind = "none"
    THEN [status |-> 503, body |-> [error |->
            <<"Transcript service is unavailable. Firebase is not configured.">>]]
    ELSE IF db.kind = "throws"
    THEN [status |-> 503, body |-> [error |->
            <<"Transcript service is temporarily unavailable.">>]]
    ELSE IF ~db.doc.exists
    THEN [status |-> 404,
          body |-> [error |-> <<"Transcript not found for this video.">>]]
    ELSE IF db.doc.transcript \in {UNDEF, Str(<<>>), Arr(<<>>)}
    THEN [status |-> 404, body |-> [error |-> <<"No transcript was found.">>]]
    ELSE NULL

\* C30: a request to a transcript route whose transcript cannot be loaded
\* calls no provider and is answered once, by the first of these that
\* applies: no videoID 400, Firebase not configured 503, document absent
\* 404 "Transcript not found for this video.", transcript empty 404 "No
\* transcript was found.", lookup exception 503.
C30_TranscriptRefusals ==
    (/\ chat.route.kind = "transcript"
     /\ chat.apiKey
     /\ TranscriptRefusal(chat.body.videoID, chat.db) # NULL) =>
        /\ chat.transportCalls = 0
        /\ chat.sends <= 1
        /\ chat.pc = "done" =>
              /\ chat.sends = 1
              /\ chat.response = TranscriptRefusal(chat.body.videoID, chat.db)
        /\ chat.lookups > 0 =>
              (Truthy(chat.body.videoID) /\ chat.db.kind # "none")

\* A transcript route has answered 404 for a document with an empty
\* transcript, after one lookup.
C30_Witness ==
    /\ chat.pc = "done"
    /\ chat.route.kind = "transcript"
    /\ chat.lookups = 1
    /\ chat.response.status = 404
    /\ chat.response.body.error = <<"No transcript was found.">>

\* C31, in every state: a result that reflects the call (a success with
\* model and text, or the upstream error) belongs to a call that settled
\* within timeoutMs with the timer cleared, and is not a timeout; a timeout
\* result belongs to a timer that fired.
C31_OneWinner ==
    \A r \in RunIds : \A i \in 1..Len(tasks[r]) :
        LET task == tasks[r][i]
            timedOut == task.provider \o <<" request timed out after ",
                                           ToString(timeoutMs[r]), "ms">>
        IN /\ task.state \in {"SUCCESS", "UPSTREAM_ERROR"} =>
                 /\ task.call = "settled"
                 /\ task.timer = "cleared"
                 /\ task.result.latencyMs <= timeoutMs[r]
           /\ task.state = "SUCCESS" =>
                 /\ task.result.status = "success"
                 /\ task.result.model = ModelOf(task.provider)
                 /\ "text" \in DOMAIN task.result
           /\ task.state = "UPSTREAM_ERROR" =>
                 /\ task.result.status = "error"
                 /\ task.result.error # timedOut
           /\ task.state = "TIMEOUT" <=> task.timer = "fired"
           /\ task.state = "TIMEOUT" =>
                 /\ task.result.status = "error"
                 /\ task.result.error = timedOut

\* C31, step by step: once the call or the timer has won, the other one
\* changes neither the task's state, its result and its timer nor a
\* response that was sent.
C31_LoserIgnored ==
    \A r \in RunIds :
        /\ \A i \in 1..Len(tasks[r]) :
              tasks[r][i].state \in AfterDispatchStates =>
                 /\ tasks'[r][i].state = tasks[r][i].state
                 /\ tasks'[r][i].result = tasks[r][i].result
                 /\ tasks'[r][i].timer = tasks[r][i].timer
        /\ response[r] # NULL => response'[r] = response[r]

\* C31: of the call and the timer of a dispatched provider exactly one
\* wins: a call that settles before the deadline gives the result, never a
\* timeout; a timer that fires first gives the timeout error, and what the
\* abandoned call does later changes neither the result nor the response.
C31_CallTimerRace ==
    /\ []C31_OneWinner
    /\ [][C31_LoserIgnored]_vars

\* After the response, the abandoned call of a timed-out task has settled
\* and the response still holds the timeout.
C31_Witness ==
    \E i \in 1..Len(tasks["A"]) :
        /\ response["A"] # NULL
        /\ pc["A"] = "done"
        /\ tasks["A"][i].timer = "fired"
        /\ tasks["A"][i].call = "settled"
        /\ response["A"].body.results[i].error =
              tasks["A"][i].provider \o <<" request timed out after ",
                                          ToString(timeoutMs["A"]), "ms">>

\* C32: when the validated request has no imageUrl, the message every
\* dispatched executor built holds only the prompt as plain text, whatever
\* providerOptions holds; a message with an image segment was built only
\* for a request with an imageUrl whose preparation gave a payload.
C32_ImageOnlyFromImageUrl ==
    \A r \in RunIds :
        (request[r] # NULL /\ "imageUrl" \in DOMAIN request[r]) =>
            \A i \in 1..Len(tasks[r]) :
                LET task == tasks[r][i] IN
                task.sent # NULL =>
                    /\ request[r].imageUrl = UNDEF =>
                          task.sent.messages[1].content =
                             Str(request[r].prompt)
                    /\ task.sent.messages[1].content.t = "array" =>
                          /\ request[r].imageUrl # UNDEF
                          /\ imagePayload[r] # NULL

\* C33: once the handler has normalized a providers array, every entry of
\* the array is accounted for: its lower-cased, trimmed form is in the
\* providers list of the selection, or the entry is in its
\* unsupportedProviders; entries that are not strings, that are empty or
\* that hold white space only are no exception.
C33_EveryEntryAccounted ==
    \A r \in RunIds :
        (pc[r] # "received" /\ pc[r] # "idle"
           /\ ~PromptInvalid(body[r].prompt)
           /\ body[r].providers.t = "array") =>
            LET selection == normalizeProvidersInput(body[r].providers)
                tokens == body[r].providers.v
            IN \A k \in 1..Len(tokens) :
                  \/ /\ tokens[k].t = "string"
                     /\ "validationError" \notin DOMAIN selection
                     /\ Includes(selection.providers,
                                 Trim(ToLowerCase(tokens[k].v)))
                  \/ Includes(selection.unsupportedProviders,
                              ReportedAs(tokens[k]))

(***************************************************************************)
(* Two compare requests handled at the same time: both have been received, *)
(* and the steps of the two invocations of compareHandler interleave in    *)
(* every order.  The requests may differ; the deployment is one, and every *)
(* remote service behaves in a fixed way for each request.                 *)
(***************************************************************************)
ConcurrentBodies ==
    {b \in Bodies :
        /\ b.prompt = Str(<<" ", "h", "i", "\n">>)
        /\ b.providers = Arr(<<Str(OPENAI), Str(DEEPSEEK)>>)
        /\ b.providerOptions = UNDEF
        /\ b.imageUrl \in {UNDEF, Str(RemoteUrl)}}

ConcurrentNetworks ==
    {[transport |-> [p \in Providers |-> behaviour], image |-> image] :
        behaviour \in TransportBehaviours,
        image \in {[kind |-> "resolves", with |-> fetched] :
                      fetched \in {f \in FetchResponses :
                                      f.data = <<"PNGBYTES">>}}
                 \cup {[kind |-> "rejects", with |-> error] :
                          error \in {e \in FetchErrors :
                                        e.code = "ECONNABORTED"}}}

InitConcurrent ==
    /\ isProduction \in BOOLEAN
    /\ pc = [r \in RunIds |-> "received"]
    /\ body \in [RunIds -> ConcurrentBodies]
    /\ \E configured \in BOOLEAN :
          deps = [r \in RunIds |->
                    [providerAvailability |->
                        [p \in Providers |-> p = OPENAI \/ configured]]]
    /\ network \in [RunIds -> ConcurrentNetworks]
    /\ InitRun

ConcurrentSpec == InitConcurrent /\ [][Next]_vars

\* runCompare's image preparation for a request handled alone
AlonePreparation(req, net) ==
    IF ~needsPreparedImage(req) THEN [payload |-> NULL, error |-> NULL]
    ELSE LET parsed == parseDataUrlImage(req.imageUrl)
             image == IF parsed.kind = "null" /\ net.image.kind = "resolves"
                      THEN fetchRemoteImageAsBase64Then(net.image.with)
                      ELSE parsed
         IN CASE image.kind = "image" ->
                    [payload |-> ImagePayloadOf(image), error |-> NULL]
              [] image.kind = "throw" ->
                    [payload |-> NULL, error |-> image.error]
              [] OTHER -> [payload |-> NULL, error |-> net.image.with]

\* The task of provider p of a request handled alone, run to its result
AloneTask(req, ms, prep, availability, net, p) ==
    LET started == MapProviderTask(PendingTask(p), req, prep.error,
                                   prep.payload, availability)
    IN IF started.state # "DISPATCHED" THEN started
       ELSE CASE net.transport[p] = "succeeds" ->
                    WhenCallResolves(started,
                        CHOOSE data \in OkResponses(p) : TRUE, 0)
              [] net.transport[p] = "fails" ->
                    WhenCallRejects(started, QuotaError, 0)
              [] OTHER -> WhenTimerFires(started, ms, ms)

\* The status, text and error of each result of a request handled alone
AloneOutcomes(b, availability, net) ==
    LET req == parseCompareRequest(b)
        ms == toIntegerOrDefault(req.providerOptions.timeoutMs,
                                 DEFAULT_COMPARE_TIMEOUT_MS)
        prep == AlonePreparation(req, net)
    IN [i \in 1..Len(req.providers) |->
           Outcome(AloneTask(req, ms, prep, availability, net,
                             req.providers[i]).result)]

\* C34, the results: whatever the interleaving of the two requests, the
\* response of each holds, provider by provider, the status, text and error
\* the request gets when it is handled alone.
C34_ResultsAsAlone ==
    \A r \in RunIds :
        Responded(r) =>
            LET results == response[r].body.results
                alone == AloneOutcomes(body[r], deps[r].providerAvailability,
                                       network[r])
            IN /\ Len(results) = Len(alone)
               /\ \A i \in 1..Len(results) : Outcome(results[i]) = alone[i]

\* C34, the writes: a step writes the state of one request only, and
\* never the request data, the availability map or a payload that is set.
C34_OwnStateOnly ==
    /\ \E r \in RunIds : \A q \in RunIds \ {r} :
          /\ tasks'[q] = tasks[q]
          /\ request'[q] = request[q]
          /\ timeoutMs'[q] = timeoutMs[q]
          /\ imagePayload'[q] = imagePayload[q]
          /\ imagePreparationError'[q] = imagePreparationError[q]
          /\ imageFetch'[q] = imageFetch[q]
          /\ response'[q] = response[q]
          /\ pc'[q] = pc[q]
    /\ body' = body /\ deps' = deps
    /\ \A r \in RunIds :
          /\ request[r] # NULL => request'[r] = request[r]
          /\ imagePayload[r] # NULL => imagePayload'[r] = imagePayload[r]

\* C34: provider tasks of compare requests handled at the same time do not
\* interfere: in every interleaving each request's results are those it
\* gets alone, and no step writes state of the other request or the data
\* the tasks read.
C34_NoInterference ==
    /\ []C34_ResultsAsAlone
    /\ [][C34_OwnStateOnly]_vars

\* Request B was answered while a task of request A, which differs from B
\* in its imageUrl, was in flight and another task of A had its result;
\* B's openai result is a success.
C34_Witness ==
    /\ body["A"] # body["B"]
    /\ pc["A"] = "awaitAll"
    /\ \E i, j \in 1..Len(tasks["A"]) :
          /\ tasks["A"][i].state = "DISPATCHED"
          /\ tasks["A"][j].state \in TerminalStates
    /\ Responded("B")
    /\ response["B"].body.results[1].status = "success"

(***************************************************************************)
(* src/lib/security.js: createIpRateLimiter.  One limiter, its entries     *)
(* map and the clock Date.now() reads.  The limiter record also keeps what *)
(* the middleware did last and, for each key, how many requests of the     *)
(* key's current window were passed to next and how many were refused.     *)
(***************************************************************************)
\* Requests the limiter handles, and steps of the clock, in one behaviour
MaxHandled == 4
MaxTicks == 3

toPositiveInt(value, fallback) ==
    LET n == ToNumber(value) IN
    IF ~n.finite \/ n.halves <= 0 THEN fallback ELSE Floor(n.halves)

\* forwarded.split(',')[0]
RECURSIVE FirstField(_)
FirstField(s) ==
    IF s = <<>> \/ Head(s) = "," THEN <<>>
    ELSE <<Head(s)>> \o FirstField(Tail(s))

getRequestIp(req) ==
    IF IsString(req.forwarded) /\ Trim(req.forwarded.v) # <<>>
    THEN Trim(FirstField(req.forwarded.v))
    ELSE IF Truthy(req.ip) THEN req.ip.v
    ELSE IF Truthy(req.remoteAddress) THEN req.remoteAddress.v
    ELSE <<"unknown">>

\* Mutant of NextEntry: every request of a running window moves its end.
NextEntrySliding(existing, now, windowDurationMs) ==
    IF existing = NULL \/ now >= existing.resetAt
    THEN [count |-> 1, resetAt |-> now + windowDurationMs]
    ELSE [count |-> existing.count + 1, resetAt |-> now + windowDurationMs]

\* The entry of the request's ip after the middleware has counted it
NextEntry(existing, now, windowDurationMs) ==
    IF existing = NULL \/ now >= existing.resetAt
    THEN [count |-> 1, resetAt |-> now + windowDurationMs]
    ELSE [existing EXCEPT !.count = @ + 1]

\* Mutant of OverLimit: one request more is let through.
OverLimitByTwo(state, requestLimit) == state.count > requestLimit + 1

\* state.count > requestLimit
OverLimit(state, requestLimit) == state.count > requestLimit

Max(a, b) == IF a >= b THEN a ELSE b

\* Math.max(1, Math.ceil((state.resetAt - now) / 1000))
RetryAfterSeconds(state, now) ==
    Max(1, (state.resetAt - now + 999) \div 1000)

\* What the middleware does with a request whose entry is now state: the
\* headers it sets, and either the 429 it sends or the call of next
RateLimitAnswer(state, now, requestLimit) ==
    LET retryAfterSeconds == RetryAfterSeconds(state, now)
        headers == [limit |-> <<ToString(requestLimit)>>,
                    remaining |->
                        <<ToString(Max(requestLimit - state.count, 0))>>,
                    reset |-> <<ToString(retryAfterSeconds)>>]
    IN IF OverLimit(state, requestLimit)
       THEN [headers |-> headers, retryAfter |-> <<ToString(retryAfterSeconds)>>,
             status |-> 429, next |-> FALSE,
             body |-> [error |-> <<"Rate limit exceeded">>,
                       details |-> <<"Too many requests. Retry in ",
                                     ToString(retryAfterSeconds),
                                     " seconds.">>]]
       ELSE [headers |-> headers, retryAfter |-> <<>>, status |-> 0,
             next |-> TRUE, body |-> NULL]

\* Requests as getRequestIp reads them: the x-forwarded-for header, req.ip
\* and req.socket.remoteAddress
LimiterRequests ==
    {[forwarded |-> UNDEF, ip |-> Str(<<"10.0.0.1">>),
      remoteAddress |-> Str(<<"10.0.0.1">>)],
     [forwarded |-> Str(<<" ", "10.0.0.2", ",", "10.0.0.9">>),
      ip |-> Str(<<"10.0.0.1">>), remoteAddress |-> Str(<<"10.0.0.1">>)],
     [forwarded |-> UNDEF, ip |-> UNDEF,
      remoteAddress |-> Str(<<"10.0.0.2">>)],
     [forwarded |-> Str(<<" ">>), ip |-> UNDEF, remoteAddress |-> UNDEF]}

LimiterKeys == {getRequestIp(req) : req \in LimiterRequests}

\* windowMs and maxRequests as given to createIpRateLimiter
LimiterWindows == {UNDEF, Num(2000), Num(3001)}
LimiterLimits == {Str(<<"0">>), Num(2), Num(5)}

\* No compare request and no chat request
IdleRoutes ==
    /\ isProduction = FALSE
    /\ pc = [r \in RunIds |-> "idle"]
    /\ body = [r \in RunIds |-> IdleBody]
    /\ deps = [r \in RunIds |->
                 [providerAvailability |-> [p \in Providers |-> FALSE]]]
    /\ network = [r \in RunIds |-> AnyNetwork]
    /\ chat = IdleChat
    /\ request = [r \in RunIds |-> NULL]
    /\ timeoutMs = [r \in RunIds |-> 0]
    /\ imagePayload = [r \in RunIds |-> NULL]
    /\ imagePreparationError = [r \in RunIds |-> NULL]
    /\ imageFetch = [r \in RunIds |-> NoFetch]
    /\ tasks = [r \in RunIds |-> <<>>]
    /\ response = [r \in RunIds |-> NULL]

InitLimiter ==
    /\ IdleRoutes
    /\ access = IdleSecurity
    /\ signup = IdleSecurity
    /\ \E windowMs \in LimiterWindows, maxRequests \in LimiterLimits :
          limiter = [pc |-> "serving",
                     windowDurationMs |-> toPositiveInt(windowMs, 60000),
                     requestLimit |-> toPositiveInt(maxRequests, 60),
                     entries |-> [k \in LimiterKeys |-> NULL],
                     now |-> 0, ticks |-> 0, handled |-> 0,
                     passed |-> [k \in LimiterKeys |-> 0],
                     refused |-> [k \in LimiterKeys |-> 0],
                     last |-> NULL]

\* The middleware createIpRateLimiter returns, handling one request
RateLimit ==
    /\ limiter.pc = "serving"
    /\ limiter.handled < MaxHandled
    /\ \E req \in LimiterRequests :
          LET now == limiter.now
              ip == getRequestIp(req)
              existing == limiter.entries[ip]
              state == NextEntry(existing, now, limiter.windowDurationMs)
              answer == RateLimitAnswer(state, now, limiter.requestLimit)
              opened == existing = NULL \/ state.resetAt # existing.resetAt
              passedBefore == IF opened THEN 0 ELSE limiter.passed[ip]
              refusedBefore == IF opened THEN 0 ELSE limiter.refused[ip]
          IN limiter' =
                [limiter EXCEPT
                    !.entries[ip] = state,
                    !.handled = @ + 1,
                    !.passed[ip] = passedBefore
                                     + (IF answer.next THEN 1 ELSE 0),
                    !.refused[ip] = refusedBefore
                                      + (IF answer.next THEN 0 ELSE 1),
                    !.last = [ip |-> ip, opened |-> opened,
                              refusedInLastWindow |->
                                 IF opened THEN limiter.refused[ip] ELSE 0,
                              answer |-> answer]]
    /\ UNCHANGED <<chat, access, signup, isProduction, pc, body, deps, request,
                   timeoutMs, imagePayload, imagePreparationError, imageFetch,
                   network, tasks, response>>

\* Half a second passes between two requests.
ClockAdvances ==
    /\ limiter.pc = "serving"
    /\ limiter.ticks < MaxTicks
    /\ limiter' = [limiter EXCEPT !.now = @ + 500, !.ticks = @ + 1]
    /\ UNCHANGED <<chat, access, signup, isProduction, pc, body, deps, request,
                   timeoutMs, imagePayload, imagePreparationError, imageFetch,
                   network, tasks, response>>

NextLimiter ==
    \/ RateLimit
    \/ ClockAdvances

LimiterSpec == InitLimiter /\ [][NextLimiter]_vars

\* C35, in every state: for every key the requests of its current window
\* that were passed to next are at most requestLimit; the last request was
\* answered 429, with Retry-After and without next, exactly when its count
\* was over the limit, and X-RateLimit-Remaining is
\* max(requestLimit - count, 0).
C35_AtMostLimit ==
    /\ \A k \in LimiterKeys :
          /\ limiter.passed[k] <= limiter.requestLimit
          /\ limiter.entries[k] # NULL =>
                limiter.passed[k] + limiter.refused[k] =
                   limiter.entries[k].count
    /\ limiter.last # NULL =>
          LET answer == limiter.last.answer
              count == limiter.entries[limiter.last.ip].count
          IN /\ answer.headers.remaining =
                   <<ToString(Max(limiter.requestLimit - count, 0))>>
             /\ (count > limiter.requestLimit) <=> answer.status = 429
             /\ answer.status = 429 =>
                   /\ ~answer.next
                   /\ answer.retryAfter # <<>>
             /\ answer.status # 429 =>
                   /\ answer.next
                   /\ answer.body = NULL
                   /\ answer.retryAfter = <<>>

\* C35, step by step: a request changes the entry of its own key only.
C35_OwnEntryOnly ==
    limiter'.handled # limiter.handled =>
        \A k \in LimiterKeys \ {limiter'.last.ip} :
            /\ limiter'.entries[k] = limiter.entries[k]
            /\ limiter'.passed[k] = limiter.passed[k]

\* C35: for each client ip and each window the limiter passes at most
\* requestLimit requests to next; every further request of the ip in the
\* window is answered 429 with Retry-After and not passed on;
\* X-RateLimit-Remaining is max(requestLimit - count, 0); requests of one ip
\* change neither count nor window of another.
C35_RateLimited ==
    /\ []C35_AtMostLimit
    /\ [][C35_OwnEntryOnly]_vars

\* A request over a limit of two is refused while another key has a window
\* of its own with one request counted.
C35_Witness ==
    /\ limiter.last # NULL
    /\ limiter.requestLimit = 2
    /\ limiter.last.answer.status = 429
    /\ limiter.passed[limiter.last.ip] = 2
    /\ \E k \in LimiterKeys \ {limiter.last.ip} :
          /\ limiter.entries[k] # NULL
          /\ limiter.entries[k].count = 1

\* C36: the resetAt of a window is set by the request that opens it and no
\* later request of the window, passed or refused, moves it; the first
\* request of a key at or after resetAt is passed and opens a window with
\* count 1; the passing of time changes no entry.
C36_WindowStep ==
    IF limiter'.handled = limiter.handled
    THEN limiter'.entries = limiter.entries
    ELSE LET ip == limiter'.last.ip
             before == limiter.entries[ip]
             after == limiter'.entries[ip]
         IN IF before # NULL /\ limiter.now < before.resetAt
            THEN /\ after.resetAt = before.resetAt
                 /\ after.count = before.count + 1
            ELSE /\ after.count = 1
                 /\ after.resetAt = limiter.now + limiter.windowDurationMs
                 /\ limiter'.last.answer.next
                 /\ limiter'.last.answer.status # 429

AllowList(keys) ==
    IF keys.t = "array" THEN SelectSeq(keys.v, Truthy) ELSE <<>>

\* The token of an Authorization header that starts with "Bearer "
BearerToken(authHeader) ==
    IF IsString(authHeader) /\ authHeader.v # <<>>
          /\ Head(authHeader.v) = "Bearer "
    THEN Trim(Tail(authHeader.v))
    ELSE <<>>

\* Mutant of SuppliedKey: the key is compared as it was sent.
SuppliedKeyUntrimmed(headers) ==
    IF Truthy(headers.xApiKey) THEN headers.xApiKey.v
    ELSE BearerToken(headers.authorization)

\* String(headerKey || bearerToken || '').trim()
SuppliedKey(headers) ==
    IF Truthy(headers.xApiKey) THEN Trim(headers.xApiKey.v)
    ELSE BearerToken(headers.authorization)

\* The middleware for an allow-list that is not empty: the response it
\* sends, or NULL when it calls next
ApiAccessRefusal(allowList, headers) ==
    LET suppliedKey == SuppliedKey(headers) IN
    IF suppliedKey = <<>>
    THEN [status |-> 401,
          body |-> [error |-> <<"Missing API access key">>,
                    details |->
             <<"Provide X-API-Key or Authorization: Bearer <token>.">>]]
    ELSE IF ~Includes(allowList, Str(suppliedKey))
    THEN [status |-> 403,
          body |-> [error |-> <<"Invalid API access key">>]]
    ELSE NULL

AccessKeyLists ==
    {UNDEF, Arr(<<>>), Arr(<<Str(<<>>)>>), Arr(<<Str(<<"k1">>)>>),
     Arr(<<Str(<<>>), Str(<<"k1">>), Str(<<"k2">>)>>)}

ApiKeyHeaders ==
    {UNDEF, Str(<<>>), Str(<<" ">>), Str(<<"k1">>), Str(<<" ", "k2", "\n">>),
     Str(<<"k9">>)}

AuthorizationHeaders ==
    {UNDEF, Str(<<"Bearer ">>), Str(<<"Bearer ", "k1">>),
     Str(<<"Bearer ", " ", "k2", " ">>), Str(<<"Bearer ", "k9">>),
     Str(<<"bearer ", "k1">>), Str(<<"Basic ", "k1">>)}

InitAccess ==
    /\ IdleRoutes
    /\ limiter = IdleSecurity
    /\ signup = IdleSecurity
    /\ \E keys \in AccessKeyLists, xApiKey \in ApiKeyHeaders,
          authorization \in AuthorizationHeaders :
          access = [pc |-> "arrived", keys |-> keys,
                    headers |-> [xApiKey |-> xApiKey,
                                 authorization |-> authorization],
                    nextCalls |-> 0, sends |-> 0, response |-> NULL]

\* The middleware of an empty allow-list: (req, res, next) => next()
OpenAccess ==
    /\ access.pc = "arrived"
    /\ Len(AllowList(access.keys)) = 0
    /\ access' = [access EXCEPT !.nextCalls = @ + 1, !.pc = "done"]
    /\ UNCHANGED <<chat, limiter, signup, isProduction, pc, body, deps,
                   request, timeoutMs, imagePayload, imagePreparationError,
                   imageFetch, network, tasks, response>>

\* The middleware of an allow-list that is not empty
CheckAccess ==
    /\ access.pc = "arrived"
    /\ Len(AllowList(access.keys)) # 0
    /\ LET refusal == ApiAccessRefusal(AllowList(access.keys), access.headers)
       IN IF refusal # NULL
          THEN access' = [access EXCEPT !.response = refusal,
                                        !.sends = @ + 1, !.pc = "done"]
          ELSE access' = [access EXCEPT !.nextCalls = @ + 1, !.pc = "done"]
    /\ UNCHANGED <<chat, limiter, signup, isProduction, pc, body, deps,
                   request, timeoutMs, imagePayload, imagePreparationError,
                   imageFetch, network, tasks, response>>

NextAccess ==
    \/ OpenAccess
    \/ CheckAccess

AccessSpec == InitAccess /\ [][NextAccess]_vars

\* The keys of the allow-list: the entries of keys that are not empty
ListedKeys ==
    IF access.keys.t = "array"
    THEN {access.keys.v[i].v : i \in {j \in 1..Len(access.keys.v) :
                                         access.keys.v[j].v # <<>>}}
    ELSE {}

\* The key the request supplies: the X-API-Key header when it has one,
\* else the token after "Bearer " of the Authorization header, without
\* the white space around it; empty when it supplies none
KeyOfRequest ==
    LET xApiKey == access.headers.xApiKey
        authorization == access.headers.authorization
    IN IF xApiKey # UNDEF /\ xApiKey.v # <<>> THEN Trim(xApiKey.v)
       ELSE IF authorization # UNDEF /\ authorization.v # <<>>
                 /\ Head(authorization.v) = "Bearer "
       THEN Trim(Tail(authorization.v))
       ELSE <<>>

\* C37: the access middleware calls next exactly when the allow-list is
\* empty or the supplied key is in it; otherwise it answers 401 when no key
\* is supplied and 403 when the key is not in the list; it never both
\* answers and calls next.
C37_AccessDecision ==
    /\ access.nextCalls + access.sends <= 1
    /\ access.pc = "done" =>
          /\ access.nextCalls + access.sends = 1
          /\ access.nextCalls = 1 <=>
                (ListedKeys = {} \/ KeyOfRequest \in ListedKeys)
          /\ access.sends = 1 =>
                access.response.status =
                   IF KeyOfRequest = <<>> THEN 401 ELSE 403
          /\ access.nextCalls = 1 => access.response = NULL

\* A request whose X-API-Key, once trimmed, is the second key of the list
\* was passed on although its Bearer token is not a key.
C37_Witness ==
    /\ access.pc = "done"
    /\ access.keys = Arr(<<Str(<<>>), Str(<<"k1">>), Str(<<"k2">>)>>)
    /\ access.headers.xApiKey = Str(<<" ", "k2", "\n">>)
    /\ access.headers.authorization = Str(<<"Bearer ", "k9">>)
    /\ access.nextCalls = 1
    /\ access.sends = 0

(***************************************************************************)
(* The invite signup: signupWithInviteHandler (src/api/routes.js 78-130),  *)
(* and validateSignupPayload, redeemInviteOrThrow and signupWithInvite     *)
(* (routes.js 600-760).  Two signups with the same invite code run at the  *)
(* same time.  The variable signup holds the invite document, the accounts *)
(* of Firebase Auth, and for each signup where it is and what it did.      *)
(* db.runTransaction is serializable by optimistic locking: the callback   *)
(* reads the document, and the commit applies its write when the document  *)
(* is still the one read, else the callback runs again.  Date.now() is 10  *)
(* throughout; expiresAt is before, at or after it.                        *)
(***************************************************************************)
Callers == {"u1", "u2"}

\* typeof value === 'string' ? value.trim() : ''
toSafeString(value) == IF IsString(value) THEN Trim(value.v) ELSE <<>>

UpperAtom(c) ==
    CASE c = "g" -> "G" [] c = "o" -> "O" [] OTHER -> c

\* toSafeString(code).toUpperCase()
normalizeInviteCode(code) ==
    LET safe == toSafeString(code) IN [i \in 1..Len(safe) |-> UpperAtom(safe[i])]

\* The digest is one atom per normalized code and key: equal codes have
\* equal digests, and no digest is empty.
hashInviteCode(inviteCode, secret) ==
    LET normalized == normalizeInviteCode(inviteCode) IN
    IF normalized = <<>> THEN <<>>
    ELSE IF secret # <<>> THEN <<"hmac-sha256:">> \o secret \o <<":">> \o normalized
    ELSE <<"sha256:">> \o normalized

createClientError(status, code, message) ==
    [status |-> status, clientCode |-> code, clientMessage |-> message]

\* An error that is not a client error: no status, no clientCode
DbUnavailable ==
    [status |-> 0, clientCode |-> "", clientMessage |-> <<>>]

mapFirebaseAuthErrorCode(code) ==
    CASE code = "auth/email-already-exists" ->
            createClientError(409, "EMAIL_IN_USE", <<"Email is already in use.">>)
      [] code = "auth/invalid-email" ->
            createClientError(400, "INVALID_EMAIL",
                              <<"Enter a valid email address.">>)
      [] OTHER ->
            createClientError(500, "AUTH_CREATE_FAILED",
                <<"Could not create user account (provider: ", code, ").">>)

\* validateSignupPayload: the payload, or the error it throws
validateSignupPayload(payload) ==
    LET email == ToLowerCase(toSafeString(payload.email))
        password == IF IsString(payload.password) THEN payload.password.v
                    ELSE <<>>
        inviteCode == toSafeString(payload.inviteCode)
    IN IF email = <<>> \/ password = <<>> \/ inviteCode = <<>>
       THEN [error |-> createClientError(400, "REQUEST_INVALID",
                <<"email, password, and inviteCode are required.">>)]
       ELSE IF Len(password) < 6
       THEN [error |-> createClientError(400, "WEAK_PASSWORD",
                <<"Password should be at least 6 characters.">>)]
       ELSE [error |-> NULL, email |-> email, password |-> password,
             inviteCode |-> inviteCode]

\* Number.isFinite(x)
IsFiniteNumber(x) == x.t = "number" /\ x.finite

\* maxUses and uses as the transaction reads them, in halves
MaxUsesOf(data) ==
    IF IsFiniteNumber(data.maxUses) /\ data.maxUses.halves > 0
    THEN data.maxUses.halves ELSE 2
UsesOf(data) == IF IsFiniteNumber(data.uses) THEN data.uses.halves ELSE 0

\* The callback of db.runTransaction in redeemInviteOrThrow, run on the
\* snapshot snap: the error it throws, or the document its tx.set merges to
redeemInvite(snap, now, uid, email) ==
    IF snap = NULL
    THEN [error |-> createClientError(400, "INVITE_INVALID",
                        <<"Invitation code is invalid.">>)]
    ELSE IF snap.active = "false"
    THEN [error |-> createClientError(400, "INVITE_INVALID",
                        <<"Invitation code is invalid.">>)]
    ELSE IF snap.expiresAt.t = "timestamp" /\ snap.expiresAt.ms <= now
    THEN [error |-> createClientError(410, "INVITE_EXPIRED",
                        <<"Invitation code has expired.">>)]
    ELSE IF UsesOf(snap) >= MaxUsesOf(snap)
    THEN [error |-> createClientError(409, "INVITE_USED",
                        <<"Invitation code has already been used.">>)]
    ELSE [error |-> NULL,
          write |-> [snap EXCEPT !.uses = Num(UsesOf(snap) + 2),
                                 !.updatedAt = now,
                                 !.lastUsedAt = now,
                                 !.lastUsedByUid = uid,
                                 !.lastUsedByEmail = email]]

\* Mutant of CommitConflicts: the commit does not look at the document.
CommitConflictsNever(current, snap) == FALSE

\* The commit of the transaction finds the document changed since tx.get
CommitConflicts(current, snap) == current # snap

\* The catch of signupWithInviteHandler: status, code and message sent
SignupErrorResponse(error) ==
    [status |-> IF error.status # 0 THEN error.status ELSE 500,
     body |-> [ok |-> FALSE,
               code |-> IF error.clientCode # "" THEN error.clientCode
                        ELSE "SIGNUP_FAILED",
               message |-> IF error.clientMessage # <<>>
                           THEN error.clientMessage
                           ELSE <<"Could not complete signup.">>]]

\* signupWithInvite rejects with error, and the handler answers with it
SignupRejects(call, error) ==
    [call EXCEPT !.pc = "done", !.error = error,
                 !.response = SignupErrorResponse(error)]

\* Mutant of createUserCatch: the catch does not throw, and the signup goes
\* on to the redemption.
createUserCatchFallThrough(call, code) ==
    [call EXCEPT !.pc = "txGet", !.createFailed = TRUE, !.txStarts = @ + 1]

\* The catch of createUser in signupWithInvite
createUserCatch(call, code) ==
    SignupRejects([call EXCEPT !.createFailed = TRUE],
                  mapFirebaseAuthErrorCode(code))

\* Mutant of redeemCatch: the error is thrown on without the rollback.
redeemCatchNoRollback(call, error) == SignupRejects(call, error)

\* The catch of redeemInviteOrThrow in signupWithInvite, up to its await:
\* deleteUser is called for the created uid
redeemCatch(call, error) ==
    [call EXCEPT !.pc = "deleteUser", !.redeemError = error,
                 !.deleteCalls = Append(@, call.createdUser)]

\* Invite documents: active, expiresAt, maxUses, uses and the lastUsed
\* fields; NULL is the document that does not exist.
FreshInvite(active, expiresAt, maxUses, uses) ==
    [active |-> active, expiresAt |-> expiresAt, maxUses |-> maxUses,
     uses |-> uses, updatedAt |-> 0, lastUsedAt |-> 0,
     lastUsedByUid |-> "", lastUsedByEmail |-> <<>>]

InviteDocs ==
    {NULL}
    \cup {FreshInvite(active, UNDEF, Num(2), Num(0)) :
             active \in {"true", "false", "absent"}}
    \cup {FreshInvite("true", [t |-> "timestamp", ms |-> ms], Num(2), Num(0)) :
             ms \in {9, 10, 11}}
    \cup {FreshInvite("true", UNDEF, maxUses, uses) :
             maxUses \in {UNDEF, Num(0), Num(2), Num(4)},
             uses \in {UNDEF, Num(0), Num(2)}}

GoodPayload(c) ==
    [email |-> Str(<<" ", c, "@", "X", ".io">>),
     password |-> Str(<<"s", "e", "c", "r", "e", "t">>),
     inviteCode |-> IF c = "u1" THEN Str(<<" ", "g", "o", "\n">>)
                    ELSE Str(<<"G", "O">>)]

SignupPayloads(c) ==
    IF c = "u1" THEN {GoodPayload(c)}
    ELSE {GoodPayload(c),
          [GoodPayload(c) EXCEPT !.inviteCode = Str(<<" ">>)],
          [GoodPayload(c) EXCEPT !.password = Str(<<"p", "w">>)]}

NewCall(payload) ==
    [pc |-> "received", payload |-> payload, email |-> <<>>,
     inviteHash |-> <<>>, createdUser |-> "", createFailed |-> FALSE,
     snap |-> NULL, staged |-> NULL, redeemError |-> NULL, error |-> NULL,
     txStarts |-> 0, retries |-> 0, writes |-> 0, deleteCalls |-> <<>>,
     deleted |-> FALSE, response |-> NULL]

InitSignup ==
    /\ IdleRoutes
    /\ limiter = IdleSecurity
    /\ access = IdleSecurity
    /\ \E invite \in InviteDocs, configured \in BOOLEAN,
          payload2 \in SignupPayloads("u2") :
          signup = [pc |-> "serving", configured |-> configured, now |-> 10,
                    inviteSecret |-> <<"s3">>,
                    invite |-> invite, invite0 |-> invite, users |-> {},
                    calls |-> [c \in Callers |->
                                 NewCall(IF c = "u2" THEN payload2
                                         ELSE GoodPayload(c))]]

SignupFrame ==
    UNCHANGED <<chat, limiter, access, isProduction, pc, body, deps, request,
                timeoutMs, imagePayload, imagePreparationError, imageFetch,
                network, tasks, response>>

\* signupWithInviteHandler up to the await of createUser in signupWithInvite
SignupWithInviteHandler(c) ==
    /\ signup.pc = "serving"
    /\ signup.calls[c].pc = "received"
    /\ LET call == signup.calls[c]
           payload == validateSignupPayload(call.payload)
           inviteHash == IF payload.error = NULL
                         THEN hashInviteCode(Str(payload.inviteCode),
                                             signup.inviteSecret)
                         ELSE <<>>
       IN signup' = [signup EXCEPT !.calls[c] =
             IF ~signup.configured
             THEN [call EXCEPT !.pc = "done", !.response =
                     [status |-> 503,
                      body |-> [ok |-> FALSE,
                                code |-> "AUTH_SERVICE_UNAVAILABLE",
                                message |-> <<"Authentication service is temporarily unavailable.">>]]]
             ELSE IF payload.error # NULL
             THEN SignupRejects(call, payload.error)
             ELSE IF inviteHash = <<>>
             THEN SignupRejects(call,
                     createClientError(400, "INVITE_INVALID",
                                       <<"Invitation code is invalid.">>))
             ELSE [call EXCEPT !.pc = "createUser", !.email = payload.email,
                               !.inviteHash = inviteHash]]
    /\ SignupFrame

\* createUser resolves: the account exists, and redeemInviteOrThrow starts
\* its transaction, which awaits tx.get.
CreateUserResolves(c) ==
    /\ signup.calls[c].pc = "createUser"
    /\ signup' = [signup EXCEPT
          !.users = @ \cup {c},
          !.calls[c] = [@ EXCEPT !.createdUser = c, !.pc = "txGet",
                                 !.txStarts = @ + 1]]
    /\ SignupFrame

\* createUser rejects.
CreateUserRejects(c) ==
    /\ signup.calls[c].pc = "createUser"
    /\ \E code \in {"auth/email-already-exists", "auth/internal-error"} :
          signup' = [signup EXCEPT !.calls[c] = createUserCatch(@, code)]
    /\ SignupFrame

\* tx.get resolves and the callback runs to its end: it throws, and the
\* transaction rejects with what it threw, or it stages its write.
TxGetResolves(c) ==
    /\ signup.calls[c].pc = "txGet"
    /\ LET call == signup.calls[c]
           result == redeemInvite(signup.invite, signup.now, call.createdUser,
                                  call.email)
       IN signup' = [signup EXCEPT !.calls[c] =
             IF result.error # NULL
             THEN redeemCatch([call EXCEPT !.snap = signup.invite],
                              result.error)
             ELSE [call EXCEPT !.pc = "txCommit", !.snap = signup.invite,
                               !.staged = result.write]]
    /\ SignupFrame

\* The transaction commits: on a conflict the callback runs again, else the
\* write is applied, signupWithInvite returns and the handler answers 201.
TxCommits(c) ==
    /\ signup.calls[c].pc = "txCommit"
    /\ LET call == signup.calls[c] IN
       IF CommitConflicts(signup.invite, call.snap)
       THEN signup' = [signup EXCEPT !.calls[c] =
                          [call EXCEPT !.pc = "txGet", !.retries = @ + 1,
                                       !.staged = NULL]]
       ELSE signup' = [signup EXCEPT
               !.invite = call.staged,
               !.calls[c] =
                  [call EXCEPT !.pc = "done", !.writes = @ + 1,
                               !.response =
                                  [status |-> 201,
                                   body |-> [ok |-> TRUE,
                                             uid |-> call.createdUser,
                                             email |-> call.email]]]]
    /\ SignupFrame

\* The transaction fails for a reason of the database: nothing is written.
TxFails(c) ==
    /\ signup.calls[c].pc \in {"txGet", "txCommit"}
    /\ signup' = [signup EXCEPT !.calls[c] =
          redeemCatch([@ EXCEPT !.staged = NULL], DbUnavailable)]
    /\ SignupFrame

\* deleteUser resolves: the account is gone, and the redemption error is
\* thrown on.
DeleteUserResolves(c) ==
    /\ signup.calls[c].pc = "deleteUser"
    /\ signup' = [signup EXCEPT
          !.users = @ \ {signup.calls[c].createdUser},
          !.calls[c] = SignupRejects([@ EXCEPT !.deleted = TRUE],
                                     signup.calls[c].redeemError)]
    /\ SignupFrame

\* deleteUser rejects: the failure is logged, and the redemption error is
\* thrown on.
DeleteUserRejects(c) ==
    /\ signup.calls[c].pc = "deleteUser"
    /\ signup' = [signup EXCEPT
          !.calls[c] = SignupRejects(@, signup.calls[c].redeemError)]
    /\ SignupFrame

SignupWithInviteHandlerStep == \E c \in Callers : SignupWithInviteHandler(c)
CreateUserResolvesStep == \E c \in Callers : CreateUserResolves(c)
CreateUserRejectsStep == \E c \in Callers : CreateUserRejects(c)
TxGetResolvesStep == \E c \in Callers : TxGetResolves(c)
TxCommitsStep == \E c \in Callers : TxCommits(c)
TxFailsStep == \E c \in Callers : TxFails(c)
DeleteUserResolvesStep == \E c \in Callers : DeleteUserResolves(c)
DeleteUserRejectsStep == \E c \in Callers : DeleteUserRejects(c)

NextSignup ==
    \/ SignupWithInviteHandlerStep
    \/ CreateUserResolvesStep
    \/ CreateUserRejectsStep
    \/ TxGetResolvesStep
    \/ TxCommitsStep
    \/ TxFailsStep
    \/ DeleteUserResolvesStep
    \/ DeleteUserRejectsStep

SignupSpec == InitSignup /\ [][NextSignup]_vars

\* The signups that were answered 201
RedeemedCalls ==
    {c \in Callers : /\ signup.calls[c].response # NULL
                     /\ signup.calls[c].response.status = 201}

\* The signups that ended in an error
FailedCalls ==
    {c \in Callers : /\ signup.calls[c].pc = "done"
                     /\ signup.calls[c].response.status # 201}

\* uses and the bound on it, as whole numbers: maxUses, or 1 when maxUses
\* is absent or not positive
StoredUses(doc) ==
    IF doc # NULL /\ doc.uses.t = "number" THEN doc.uses.halves \div 2 ELSE 0
BoundOnUses(doc) ==
    IF doc.maxUses.t = "number" /\ doc.maxUses.halves > 0
    THEN doc.maxUses.halves \div 2 ELSE 1

\* An invite that is neither missing, inactive, expired nor exhausted
Redeemable(doc) ==
    /\ doc # NULL
    /\ doc.active # "false"
    /\ ~(doc.expiresAt.t = "timestamp" /\ doc.expiresAt.ms <= signup.now)
    /\ StoredUses(doc) < BoundOnUses(doc)

\* C38, in every state: uses is at most maxUses, and the signups that
\* returned ok are as many as uses has grown.
C38_UsesBounded ==
    /\ signup.invite # NULL =>
          StoredUses(signup.invite) <= BoundOnUses(signup.invite)
    /\ Cardinality(RedeemedCalls) =
          StoredUses(signup.invite) - StoredUses(signup.invite0)

\* C38, step by step: the invite document changes only by a redemption of
\* an invite that is there, active, not expired and not exhausted, and
\* each such step adds one to uses.
C38_RedeemStep ==
    signup'.invite # signup.invite =>
        /\ Redeemable(signup.invite)
        /\ StoredUses(signup'.invite) = StoredUses(signup.invite) + 1

\* C38: with serializable transactions, for any interleaving of signups
\* that use the same invite code, the stored uses never exceeds maxUses (1
\* when maxUses is absent or not positive), the signups that return ok are
\* as many as uses has grown, and an invite that is missing, inactive,
\* expired or exhausted is never redeemed.
C38_InviteRedemption ==
    /\ []C38_UsesBounded
    /\ [][C38_RedeemStep]_vars

\* Both signups reached the commit of an invite with one use left: one
\* was answered 201, the other ran its callback again after the conflict
\* and was answered 409.
C38_Witness ==
    /\ \A c \in Callers : signup.calls[c].pc = "done"
    /\ \E c, d \in Callers :
          /\ signup.calls[c].response.status = 201
          /\ signup.calls[d].response.status = 409
          /\ signup.calls[d].retries = 1
    /\ StoredUses(signup.invite) = 1

\* C39: a signup whose redemption failed after its account was created
\* has called deleteUser once, for the created uid, before rejecting, and
\* rejects with the error of the redemption whether deleteUser succeeded
\* or not; when deleteUser succeeded, and when no account was created, a
\* signup that ended in an error has left no account.
C39_Rollback ==
    \A c \in Callers :
        LET call == signup.calls[c] IN
        /\ call.pc = "deleteUser" => call.response = NULL
        /\ Len(call.deleteCalls) <= 1
        /\ c \in FailedCalls =>
              IF call.createdUser # ""
              THEN /\ call.deleteCalls = <<call.createdUser>>
                   /\ call.redeemError # NULL
                   /\ call.error = call.redeemError
                   /\ call.response = SignupErrorResponse(call.redeemError)
                   /\ call.deleted => call.createdUser \notin signup.users
              ELSE /\ call.deleteCalls = <<>>
                   /\ c \notin signup.users
        /\ c \in RedeemedCalls =>
              /\ call.deleteCalls = <<>>
              /\ c \in signup.users

\* The invite was used up; the signup was answered 409 although its
\* deleteUser failed, and its account is still there.
C39_Witness ==
    \E c \in FailedCalls :
        /\ signup.calls[c].createdUser = c
        /\ signup.calls[c].deleteCalls = <<c>>
        /\ ~signup.calls[c].deleted
        /\ c \in signup.users
        /\ signup.calls[c].response.status = 409
        /\ signup.calls[c].response.body.code = "INVITE_USED"

\* C40, in every state: a signup whose createUser failed has started no
\* transaction, a signup that ended in an error has written nothing, and
\* when every signup ended in an error the invite document is the one
\* there was.
C40_NoWrite ==
    /\ \A c \in Callers :
          /\ signup.calls[c].createFailed => signup.calls[c].txStarts = 0
          /\ c \in FailedCalls => signup.calls[c].writes = 0
    /\ FailedCalls = Callers => signup.invite = signup.invite0

\* C40, step by step: the step in which a redemption throws, and every
\* step of a signup that is not answered 201 in it, leaves the invite
\* document as it is.
C40_FailureStep ==
    signup'.invite # signup.invite =>
        \E c \in Callers :
            /\ signup.calls[c].response = NULL
            /\ signup'.calls[c].response # NULL
            /\ signup'.calls[c].response.status = 201
            /\ \A d \in Callers \ {c} : signup'.calls[d] = signup.calls[d]

\* C40: a failed signup leaves the invite document unchanged: when
\* createUser fails no transaction is started, and when the redemption
\* throws nothing was written: uses and the lastUsed fields keep their
\* values.
C40_InviteUntouched ==
    /\ []C40_NoWrite
    /\ [][C40_FailureStep]_vars

\* One signup failed at createUser, the other at the redemption of an
\* exhausted invite; the invite document is what it was.
C40_Witness ==
    /\ FailedCalls = Callers
    /\ \E c, d \in Callers :
          /\ signup.calls[c].createFailed
          /\ signup.calls[d].txStarts = 1
          /\ signup.calls[d].response.status = 409
    /\ signup.invite # NULL
    /\ signup.invite = signup.invite0

====
